---- MODULE Spec2Model ----
(***************************************************************************)
(* Reveal matchmaking engine of the TapIn backend: the v2 decision         *)
(* endpoint (app/modules/reveal_v2/router.py), the daily cycle and         *)
(* blocklist helpers (app/services/reveal_cycle_v2.py) and the presence    *)
(* endpoints (app/api/routes/presence.py), over the three tables           *)
(* reveal_daily_cycle_v2, reveal_decisions_v2 and reveal_blocklist_v2 and  *)
(* the presence table; beside it the token verification of                *)
(* app/core/auth.py, the onboarding wizard of app/api/routes/onboarding.py *)
(* and the connection requests of app/modules/connections/service.py.      *)
(***************************************************************************)
EXTENDS Integers, Sequences, FiniteSets, TLC

\* ------------------------------------------------------------------------
\* Identifiers.  User ids are strings, compared by Python's str "<"
\* (lexicographic); a string is modelled as the sequence of its digits, so
\* "10" < "2" although 10 > 2.
\* ------------------------------------------------------------------------
U1 == <<1>>
U10 == <<1, 0>>
U2 == <<2>>
U3 == <<3>>
U4 == <<4>>
Users == {U1, U10, U2, U3, U4}

\* Conversations are issued per pair of users by the messaging side; the
\* decision endpoint receives a conversation id together with the id of the
\* counterpart.  U2 is in a conversation with each of the other four users;
\* U2 and U10 are the users who send decisions.
ConvPairs ==
    [c1 |-> {U2, U10}, c2 |-> {U2, U1}, c3 |-> {U2, U3}, c4 |-> {U2, U4}]
ConvIds == DOMAIN ConvPairs
Deciders == {U2, U10}

Decisions == {"meet", "pass"}
Slots == {1, 2, 3}

\* The calendar days of a run, and the size the cycle table may grow to.
DayKeys == {0, 1}
MaxCycleRows == 4
DaySeconds == 24 * 60 * 60

VARIABLES
    now,        \* wall clock, seconds (datetime.now())
    cycle,      \* table reveal_daily_cycle_v2 (committed rows)
    decisions,  \* table reveal_decisions_v2 (committed rows)
    blocklist,  \* table reveal_blocklist_v2 (committed rows)
    resp,       \* the response of the last request served
    tx,         \* per worker: the request in service and its open transaction
    presence,   \* table presence, one row per user_id (primary key)
    shown,      \* history: who was returned to which viewer by nearby, per day
    schema,     \* the unique indexes of table reveal_daily_cycle_v2
    connections, \* table public.connections as push.py uses it (committed rows)
    messages,   \* Supabase table messages: the sender ids per conversation
    workers,    \* per request of push.py in service: its position and locals
    passes,     \* history: the passes committed per connection
    _JWKS_CACHE, \* auth.py: the cached key set and the time it was fetched
    issuer,     \* the identity provider's position in its key rotation
    auth,       \* per thread: the token verification in progress
    last_fetched, \* history: the key set _fetch_jwks returned last
    onboarding_state, \* table onboarding_state, one row per user_id
    profiles,   \* table profiles, one row per user_id
    media_items, \* table media_items: the items of each user
    connection_rows, \* ORM table connections (modules/connections/models.py)
    conversation_rows, \* ORM table conversations
    opened      \* history: the conversation each accept created, per connection

authVars == <<_JWKS_CACHE, issuer, auth, last_fetched>>

onbVars == <<onboarding_state, profiles, media_items>>

svcVars == <<connection_rows, conversation_rows, opened>>

\* The variables of the modules outside the reveal engine.
outsideVars == <<authVars, onbVars, svcVars>>

\* The variables of the reveal engine, presence and push.
engineVars == <<now, cycle, decisions, blocklist, resp, tx, presence, shown, schema,
                connections, messages, workers, passes>>

vars == <<engineVars, outsideVars>>

\* The statements in the source name a unique index for reveal_blocklist_v2
\* (user_low, user_high), reveal_decisions_v2 (conversation_id, user_id) and
\* presence (user_id) in their ON CONFLICT clauses; the inserts into
\* reveal_daily_cycle_v2 name none, and the table is created outside the
\* application.  A deployment may have a unique index on (viewer_id, day_key,
\* slot), on (viewer_id, day_key, target_id), on both or on neither.
Schemas == [slot_unique : BOOLEAN, target_unique : BOOLEAN]
DeclaredSchema == [slot_unique |-> FALSE, target_unique |-> FALSE]

\* Request workers that serve decisions concurrently, each in its own
\* session (get_db), and the conversations they are asked about.
Procs == {"w1", "w2"}
TxConvIds == {"c1", "c2"}

\* datetime.now().date()
day_key(t) == t \div DaySeconds

\* ------------------------------------------------------------------------
\* str comparison: a < b on strings
\* ------------------------------------------------------------------------
RECURSIVE StrLess(_, _)
StrLess(a, b) ==
    IF b = <<>> THEN FALSE
    ELSE IF a = <<>> THEN TRUE
    ELSE IF Head(a) # Head(b) THEN Head(a) < Head(b)
    ELSE StrLess(Tail(a), Tail(b))

\* ------------------------------------------------------------------------
\* app/modules/reveal_v2/router.py : helpers
\* ------------------------------------------------------------------------
_pair_low_high_unordered(a, b) == <<a, b>>
_pair_low_high(a, b) == IF StrLess(a, b) THEN <<a, b>> ELSE <<b, a>>

_is_blocked_as_given(bl, a, b) ==
    \E r \in bl : r.user_low = a /\ r.user_high = b

_is_blocked(bl, a, b) ==
    LET p == _pair_low_high(a, b)
    IN  \E r \in bl : r.user_low = p[1] /\ r.user_high = p[2]

\* insert ... on conflict (user_low, user_high) do update set reason, last_conversation_id
_insert_block(bl, a, b, reason, cid) ==
    LET p == _pair_low_high(a, b)
        hit(r) == r.user_low = p[1] /\ r.user_high = p[2]
    IN  IF \E r \in bl : hit(r)
        THEN { IF hit(r)
               THEN [r EXCEPT !.reason = reason, !.last_conversation_id = cid]
               ELSE r : r \in bl }
        ELSE bl \cup { [user_low |-> p[1], user_high |-> p[2],
                        reason |-> reason, last_conversation_id |-> cid] }

\* Rows of one viewer's cycle for one day.
CycleRows(cy, viewer_id, today) ==
    { r \in cy : r.viewer_id = viewer_id /\ r.day_key = today }

AssignSlot_fourth_slot(cy, viewer_id, target_id, cid, today) ==
    LET used_slots == { r.slot : r \in CycleRows(cy, viewer_id, today) }
        free       == (Slots \cup {4}) \ used_slots
    IN  IF free # {}
        THEN LET slot == CHOOSE s \in free : \A t \in free : s <= t
             IN  [ok |-> TRUE, slot |-> slot,
                  cycle |-> cy \cup { [viewer_id |-> viewer_id, day_key |-> today,
                                       slot |-> slot, target_id |-> target_id,
                                       conversation_id |-> cid] }]
        ELSE [ok |-> FALSE, slot |-> 0, cycle |-> cy]

\* Lines 91-123 of _ensure_daily_slot: select the used slots and insert at the
\* first of 1, 2, 3 that is free; ok = FALSE is the HTTPException(429).
AssignSlot(cy, viewer_id, target_id, cid, today) ==
    LET used_slots == { r.slot : r \in CycleRows(cy, viewer_id, today) }
        free       == Slots \ used_slots
    IN  IF free # {}
        THEN LET slot == CHOOSE s \in free : \A t \in free : s <= t
             IN  [ok |-> TRUE, slot |-> slot,
                  cycle |-> cy \cup { [viewer_id |-> viewer_id, day_key |-> today,
                                       slot |-> slot, target_id |-> target_id,
                                       conversation_id |-> cid] }]
        ELSE [ok |-> FALSE, slot |-> 0, cycle |-> cy]

_ensure_daily_slot_no_lookup(cy, viewer_id, target_id, cid, today) ==
    AssignSlot(cy, viewer_id, target_id, cid, today)

_ensure_daily_slot_highest(cy, viewer_id, target_id, cid, today) ==
    LET existing   == { r \in CycleRows(cy, viewer_id, today) : r.target_id = target_id }
        used_slots == { r.slot : r \in CycleRows(cy, viewer_id, today) }
        free       == Slots \ used_slots
    IN  IF existing # {}
        THEN [ok |-> TRUE, slot |-> (CHOOSE r \in existing : TRUE).slot, cycle |-> cy]
        ELSE IF free # {}
        THEN LET slot == CHOOSE s \in free : \A t \in free : s >= t
             IN  [ok |-> TRUE, slot |-> slot,
                  cycle |-> cy \cup { [viewer_id |-> viewer_id, day_key |-> today,
                                       slot |-> slot, target_id |-> target_id,
                                       conversation_id |-> cid] }]
        ELSE [ok |-> FALSE, slot |-> 0, cycle |-> cy]

_ensure_daily_slot_rebinds(cy, viewer_id, target_id, cid, today) ==
    LET existing == { r \in CycleRows(cy, viewer_id, today) : r.target_id = target_id }
    IN  IF existing # {}
        THEN [ok |-> TRUE, slot |-> (CHOOSE r \in existing : TRUE).slot,
              cycle |-> { IF r \in existing THEN [r EXCEPT !.conversation_id = cid]
                          ELSE r : r \in cy }]
        ELSE AssignSlot(cy, viewer_id, target_id, cid, today)

\* _ensure_daily_slot: the slot the target already holds today (the row
\* .first() returns), or a new one.
_ensure_daily_slot(cy, viewer_id, target_id, cid, today) ==
    LET existing == { r \in CycleRows(cy, viewer_id, today) : r.target_id = target_id }
    IN  IF existing # {}
        THEN [ok |-> TRUE, slot |-> (CHOOSE r \in existing : TRUE).slot, cycle |-> cy]
        ELSE AssignSlot(cy, viewer_id, target_id, cid, today)

StoreDecision_first_wins(ds, cid, uid, oid, decision) ==
    LET hit(r) == r.conversation_id = cid /\ r.user_id = uid
    IN  IF \E r \in ds : hit(r)
        THEN ds
        ELSE ds \cup { [conversation_id |-> cid, user_id |-> uid,
                        other_user_id |-> oid, decision |-> decision] }

\* insert into reveal_decisions_v2 ... on conflict (conversation_id, user_id)
\* do update set decision = excluded.decision
StoreDecision(ds, cid, uid, oid, decision) ==
    LET hit(r) == r.conversation_id = cid /\ r.user_id = uid
    IN  IF \E r \in ds : hit(r)
        THEN { IF hit(r) THEN [r EXCEPT !.decision = decision] ELSE r : r \in ds }
        ELSE ds \cup { [conversation_id |-> cid, user_id |-> uid,
                        other_user_id |-> oid, decision |-> decision] }

\* select decision from reveal_decisions_v2 where conversation_id = :cid
\* and user_id = :other_id  -- "none" when there is no row
OtherDecision(ds, cid, other_id) ==
    LET rows == { r \in ds : r.conversation_id = cid /\ r.user_id = other_id }
    IN  IF rows = {} THEN "none" ELSE (CHOOSE r \in rows : TRUE).decision

\* ------------------------------------------------------------------------
\* app/services/reveal_cycle_v2.py : the same helpers as a service module
\* (str | None conversation ids: "null" is None)
\* ------------------------------------------------------------------------
service_pair_low_high(a, b) == IF StrLess(a, b) THEN <<a, b>> ELSE <<b, a>>

is_blocked_pair(bl, user_a, user_b) ==
    LET p == service_pair_low_high(user_a, user_b)
    IN  \E r \in bl : r.user_low = p[1] /\ r.user_high = p[2]

\* ... do update set reason = excluded.reason, last_conversation_id =
\* coalesce(excluded.last_conversation_id, reveal_blocklist_v2.last_conversation_id)
upsert_block_pair(bl, user_a, user_b, reason, conversation_id) ==
    LET p == service_pair_low_high(user_a, user_b)
        hit(r) == r.user_low = p[1] /\ r.user_high = p[2]
    IN  IF \E r \in bl : hit(r)
        THEN { IF hit(r)
               THEN [r EXCEPT !.reason = reason,
                              !.last_conversation_id =
                                  IF conversation_id # "null" THEN conversation_id ELSE @]
               ELSE r : r \in bl }
        ELSE bl \cup { [user_low |-> p[1], user_high |-> p[2],
                        reason |-> reason, last_conversation_id |-> conversation_id] }

\* insert into reveal_decisions_v2 ... on conflict (conversation_id, user_id)
\* do update set decision, other_user_id, created_at
record_decision(ds, conversation_id, user_id, other_user_id, decision) ==
    LET hit(r) == r.conversation_id = conversation_id /\ r.user_id = user_id
    IN  IF \E r \in ds : hit(r)
        THEN { IF hit(r)
               THEN [r EXCEPT !.decision = decision, !.other_user_id = other_user_id]
               ELSE r : r \in ds }
        ELSE ds \cup { [conversation_id |-> conversation_id, user_id |-> user_id,
                        other_user_id |-> other_user_id, decision |-> decision] }

\* CyclePickResult, or ok = FALSE for ValueError("daily_cycle_full")
ensure_cycle_slot(cy, viewer_id, today, target_id, conversation_id) ==
    LET existing == { r \in CycleRows(cy, viewer_id, today) : r.target_id = target_id }
        used     == { r.slot : r \in CycleRows(cy, viewer_id, today) }
        free     == Slots \ used
    IN  IF existing # {}
        THEN LET e == CHOOSE r \in existing : TRUE
             IN  [ok |-> TRUE, day_key |-> today, slot |-> e.slot, target_id |-> target_id,
                  conversation_id |-> IF e.conversation_id # "null"
                                      THEN e.conversation_id ELSE conversation_id,
                  cycle |-> cy]
        ELSE IF free # {}
        THEN LET slot == CHOOSE s \in free : \A t \in free : s <= t
             IN  [ok |-> TRUE, day_key |-> today, slot |-> slot, target_id |-> target_id,
                  conversation_id |-> conversation_id,
                  cycle |-> cy \cup { [viewer_id |-> viewer_id, day_key |-> today,
                                       slot |-> slot, target_id |-> target_id,
                                       conversation_id |-> conversation_id] }]
        ELSE [ok |-> FALSE, day_key |-> today, slot |-> 0, target_id |-> target_id,
              conversation_id |-> conversation_id, cycle |-> cy]

\* ------------------------------------------------------------------------
\* app/api/routes/presence.py : blocklist lookup of the nearby endpoint
\* ------------------------------------------------------------------------
presence_pair_low_high(a, b) == IF StrLess(a, b) THEN <<a, b>> ELSE <<b, a>>

_is_blocked_pair_as_given(bl, me, other) ==
    \E r \in bl : r.user_low = me /\ r.user_high = other

_is_blocked_pair(bl, me, other) ==
    LET p == presence_pair_low_high(me, other)
    IN  \E r \in bl : r.user_low = p[1] /\ r.user_high = p[2]

\* ------------------------------------------------------------------------
\* app/api/routes/presence.py and app/core/match_config.py
\* ------------------------------------------------------------------------
STATIONARY_THRESHOLD_SECONDS == 15
PRESENCE_EXPIRY_MINUTES == 5
EarthRadiusM == 6371000

\* SQL NULL in a timestamp column
Null == 0 - 1
NoPresence == [present |-> FALSE]

\* Coordinates are degrees on a grid of 0.0009 degrees; distances are in
\* millimetres.  On the equator (lat1 = lat2 = 0) the haversine formula is
\* 2 R atan2(sin(dl/2), cos(dl/2)) = R |dl|, and R * 0.0009 degrees in radians
\* is 100.075 m (pi taken as 355/113).
GridStepMm == ((EarthRadiusM \div 1000) * 100 * 9 * 355) \div (180 * 113)
Abs(x) == IF x < 0 THEN 0 - x ELSE x

haversine_m(lat1, lng1, lat2, lng2) ==
    Abs(lng2 - lng1) * GridStepMm

\* round(dist, 1), in tenths of a metre
Round1(mm) == (mm + 50) \div 100

\* order by slot asc
RECURSIVE SlotOrder(_)
SlotOrder(rows) ==
    IF rows = {} THEN <<>>
    ELSE LET r == CHOOSE x \in rows : \A y \in rows : x.slot <= y.slot
         IN  <<r>> \o SlotOrder(rows \ {r})

SeqRange(q) == { q[i] : i \in DOMAIN q }

\* [str(r["target_id"]) for r in rows if r.get("target_id")]
_today_cycle_targets(cy, viewer_id, today) ==
    LET rows == SlotOrder(CycleRows(cy, viewer_id, today))
    IN  [i \in DOMAIN rows |-> rows[i].target_id]

\* list.index
IndexOf(q, x) == CHOOSE i \in DOMAIN q : q[i] = x /\ \A j \in 1..(i - 1) : q[j] # x

\* The orders in which a stable sort by key can leave the rows of S (records
\* with a field key), the order before the sort (the order the rows came in)
\* being arbitrary.
RECURSIVE SortedOrders(_)
SortedOrders(S) ==
    IF S = {} THEN { <<>> }
    ELSE UNION { { <<m>> \o q : q \in SortedOrders(S \ {m}) } :
                 m \in { x \in S : \A y \in S : x.key <= y.key } }

Strip(q) == [i \in DOMAIN q |-> q[i].row]

Prefix(q, n) == [i \in 1..(IF n < Len(q) THEN n ELSE Len(q)) |-> q[i]]

HeartbeatRow_activation_kept(old, lat, lng, is_stationary, venue_type, t) ==
    IF ~old.present
    THEN [present |-> TRUE, lat |-> lat, lng |-> lng, venue_type |-> venue_type,
          is_stationary |-> is_stationary, discoverable |-> TRUE,
          activated_at |-> IF is_stationary THEN t ELSE Null,
          last_seen_at |-> t]
    ELSE [old EXCEPT !.lat = lat, !.lng = lng, !.venue_type = venue_type,
                     !.is_stationary = is_stationary,
                     !.activated_at = IF is_stationary /\ ~old.is_stationary THEN t
                                      ELSE old.activated_at,
                     !.last_seen_at = t]

HeartbeatRow_always_reactivates(old, lat, lng, is_stationary, venue_type, t) ==
    IF ~old.present
    THEN [present |-> TRUE, lat |-> lat, lng |-> lng, venue_type |-> venue_type,
          is_stationary |-> is_stationary, discoverable |-> TRUE,
          activated_at |-> IF is_stationary THEN t ELSE Null,
          last_seen_at |-> t]
    ELSE [old EXCEPT !.lat = lat, !.lng = lng, !.venue_type = venue_type,
                     !.is_stationary = is_stationary,
                     !.activated_at = IF is_stationary THEN t ELSE Null,
                     !.last_seen_at = t]

\* POST /v1/presence/heartbeat : the upsert of lines 121-167
HeartbeatRow(old, lat, lng, is_stationary, venue_type, t) ==
    IF ~old.present
    THEN [present |-> TRUE, lat |-> lat, lng |-> lng, venue_type |-> venue_type,
          is_stationary |-> is_stationary, discoverable |-> TRUE,
          activated_at |-> IF is_stationary THEN t ELSE Null,
          last_seen_at |-> t]
    ELSE [old EXCEPT !.lat = lat, !.lng = lng, !.venue_type = venue_type,
                     !.is_stationary = is_stationary,
                     !.activated_at = IF is_stationary /\ ~old.is_stationary THEN t
                                      ELSE IF ~is_stationary THEN Null
                                      ELSE old.activated_at,
                     !.last_seen_at = t]

presence_heartbeat(user_id, lat, lng, is_stationary, venue_type) ==
    /\ presence' = [presence EXCEPT ![user_id] =
                       HeartbeatRow(presence[user_id], lat, lng, is_stationary,
                                    venue_type, now)]
    /\ resp' = [op |-> "heartbeat", status |-> "ok", last_seen_at |-> now]
    /\ UNCHANGED <<outsideVars, connections, messages, workers, passes, schema, now, cycle, decisions, blocklist, tx, shown>>

InRadius_no_dwell(user_id, lat, lng, radius_meters) ==
    LET expiry_cutoff == now - PRESENCE_EXPIRY_MINUTES * 60
        rows == { u \in Users :
                    /\ presence[u].present
                    /\ presence[u].discoverable
                    /\ u # user_id
                    /\ presence[u].is_stationary
                    /\ presence[u].activated_at # Null
                    /\ presence[u].last_seen_at >= expiry_cutoff }
    IN  { [user_id |-> u, lat |-> presence[u].lat, lng |-> presence[u].lng,
           distance |-> haversine_m(lat, lng, presence[u].lat, presence[u].lng)] :
            u \in { w \in rows :
                      haversine_m(lat, lng, presence[w].lat, presence[w].lng)
                          <= radius_meters * 1000 } }

InRadius_with_viewer(user_id, lat, lng, radius_meters) ==
    LET expiry_cutoff     == now - PRESENCE_EXPIRY_MINUTES * 60
        activation_cutoff == now - STATIONARY_THRESHOLD_SECONDS
        rows == { u \in Users :
                    /\ presence[u].present
                    /\ presence[u].discoverable
                    /\ presence[u].is_stationary
                    /\ presence[u].activated_at # Null
                    /\ presence[u].activated_at <= activation_cutoff
                    /\ presence[u].last_seen_at >= expiry_cutoff }
    IN  { [user_id |-> u, lat |-> presence[u].lat, lng |-> presence[u].lng,
           distance |-> haversine_m(lat, lng, presence[u].lat, presence[u].lng)] :
            u \in { w \in rows :
                      haversine_m(lat, lng, presence[w].lat, presence[w].lng)
                          <= radius_meters * 1000 } }

InRadius_no_expiry(user_id, lat, lng, radius_meters) ==
    LET activation_cutoff == now - STATIONARY_THRESHOLD_SECONDS
        rows == { u \in Users :
                    /\ presence[u].present
                    /\ presence[u].discoverable
                    /\ u # user_id
                    /\ presence[u].is_stationary
                    /\ presence[u].activated_at # Null
                    /\ presence[u].activated_at <= activation_cutoff }
    IN  { [user_id |-> u, lat |-> presence[u].lat, lng |-> presence[u].lng,
           distance |-> haversine_m(lat, lng, presence[u].lat, presence[u].lng)] :
            u \in { w \in rows :
                      haversine_m(lat, lng, presence[w].lat, presence[w].lng)
                          <= radius_meters * 1000 } }

\* Lines 194-220: the presence rows selected, with their distance, in radius
InRadius(user_id, lat, lng, radius_meters) ==
    LET expiry_cutoff     == now - PRESENCE_EXPIRY_MINUTES * 60
        activation_cutoff == now - STATIONARY_THRESHOLD_SECONDS
        rows == { u \in Users :
                    /\ presence[u].present
                    /\ presence[u].discoverable
                    /\ u # user_id
                    /\ presence[u].is_stationary
                    /\ presence[u].activated_at # Null
                    /\ presence[u].activated_at <= activation_cutoff
                    /\ presence[u].last_seen_at >= expiry_cutoff }
    IN  { [user_id |-> u, lat |-> presence[u].lat, lng |-> presence[u].lng,
           distance |-> haversine_m(lat, lng, presence[u].lat, presence[u].lng)] :
            u \in { w \in rows :
                      haversine_m(lat, lng, presence[w].lat, presence[w].lng)
                          <= radius_meters * 1000 } }

NearbyUser(r) ==
    [user_id |-> r.user_id, lat |-> r.lat, lng |-> r.lng,
     distance_meters |-> Round1(r.distance)]

NearbyResults_fills_at_three(user_id, lat, lng, radius_meters) ==
    LET day            == day_key(now)
        todays_targets == _today_cycle_targets(cycle, user_id, day)
        todays_set     == SeqRange(todays_targets)
        in_radius      == InRadius(user_id, lat, lng, radius_meters)
        slotted        == { [key |-> IndexOf(todays_targets, r.user_id), row |-> NearbyUser(r)] :
                              r \in { x \in in_radius : x.user_id \in todays_set } }
    IN  IF Len(todays_targets) > 3
        THEN { Strip(a) : a \in SortedOrders(slotted) }
        ELSE LET fresh == { [key |-> Round1(r.distance), row |-> NearbyUser(r)] :
                              r \in { x \in in_radius :
                                        /\ x.user_id \notin todays_set
                                        /\ ~_is_blocked_pair(blocklist, user_id, x.user_id) } }
                 remaining == IF 3 - Cardinality(slotted) < 0
                              THEN 0 ELSE 3 - Cardinality(slotted)
             IN  { Strip(a) \o Prefix(Strip(f), remaining) :
                     a \in SortedOrders(slotted), f \in SortedOrders(fresh) }

NearbyResults_unfiltered(user_id, lat, lng, radius_meters) ==
    LET day            == day_key(now)
        todays_targets == _today_cycle_targets(cycle, user_id, day)
        todays_set     == SeqRange(todays_targets)
        in_radius      == InRadius(user_id, lat, lng, radius_meters)
        slotted        == { [key |-> IndexOf(todays_targets, r.user_id), row |-> NearbyUser(r)] :
                              r \in { x \in in_radius : x.user_id \in todays_set } }
    IN  IF Len(todays_targets) >= 3
        THEN { Strip(a) : a \in SortedOrders(slotted) }
        ELSE LET fresh == { [key |-> Round1(r.distance), row |-> NearbyUser(r)] :
                              r \in { x \in in_radius : x.user_id \notin todays_set } }
                 remaining == IF 3 - Cardinality(slotted) < 0
                              THEN 0 ELSE 3 - Cardinality(slotted)
             IN  { Strip(a) \o Prefix(Strip(f), remaining) :
                     a \in SortedOrders(slotted), f \in SortedOrders(fresh) }

NearbyResults_fresh_first(user_id, lat, lng, radius_meters) ==
    LET day            == day_key(now)
        todays_targets == _today_cycle_targets(cycle, user_id, day)
        todays_set     == SeqRange(todays_targets)
        in_radius      == InRadius(user_id, lat, lng, radius_meters)
        slotted        == { [key |-> IndexOf(todays_targets, r.user_id), row |-> NearbyUser(r)] :
                              r \in { x \in in_radius : x.user_id \in todays_set } }
    IN  IF Len(todays_targets) >= 3
        THEN { Strip(a) : a \in SortedOrders(slotted) }
        ELSE LET fresh == { [key |-> Round1(r.distance), row |-> NearbyUser(r)] :
                              r \in { x \in in_radius :
                                        /\ x.user_id \notin todays_set
                                        /\ ~_is_blocked_pair(blocklist, user_id, x.user_id) } }
                 remaining == IF 3 - Cardinality(slotted) < 0
                              THEN 0 ELSE 3 - Cardinality(slotted)
             IN  { Prefix(Strip(f), remaining) \o Strip(a) :
                     a \in SortedOrders(slotted), f \in SortedOrders(fresh) }

\* Lines 222-265: the lists of users presence_nearby can return
NearbyResults(user_id, lat, lng, radius_meters) ==
    LET day            == day_key(now)
        todays_targets == _today_cycle_targets(cycle, user_id, day)
        todays_set     == SeqRange(todays_targets)
        in_radius      == InRadius(user_id, lat, lng, radius_meters)
        slotted        == { [key |-> IndexOf(todays_targets, r.user_id), row |-> NearbyUser(r)] :
                              r \in { x \in in_radius : x.user_id \in todays_set } }
    IN  IF Len(todays_targets) >= 3
        THEN { Strip(a) : a \in SortedOrders(slotted) }
        ELSE LET fresh == { [key |-> Round1(r.distance), row |-> NearbyUser(r)] :
                              r \in { x \in in_radius :
                                        /\ x.user_id \notin todays_set
                                        /\ ~_is_blocked_pair(blocklist, user_id, x.user_id) } }
                 remaining == IF 3 - Cardinality(slotted) < 0
                              THEN 0 ELSE 3 - Cardinality(slotted)
             IN  { Strip(a) \o Prefix(Strip(f), remaining) :
                     a \in SortedOrders(slotted), f \in SortedOrders(fresh) }

\* POST /v1/presence/nearby
presence_nearby(user_id, lat, lng, radius_meters) ==
    \E users \in NearbyResults(user_id, lat, lng, radius_meters) :
        /\ resp' = [op |-> "nearby", users |-> users]
        /\ shown' = shown \cup { [viewer_id |-> user_id, day_key |-> day_key(now),
                                  user_id |-> users[i].user_id] : i \in DOMAIN users }
        /\ UNCHANGED <<outsideVars, connections, messages, workers, passes, schema, now, cycle, decisions, blocklist, tx, presence>>

\* ------------------------------------------------------------------------
\* Responses
\* ------------------------------------------------------------------------
NoResp == [op |-> "none"]

\* RevealDecisionOut, or the HTTPException (http 400 / 429)
DecisionResp(http, status, msg, slot, today) ==
    [op |-> "decision", http |-> http, status |-> status, ai_message |-> msg,
     slot |-> slot, day_key |-> today]

\* The status and message reveal_decision_v2 answers after the decision is
\* stored: my decision against the counterpart's row as read.
Outcome_pass_unseen(d, other) ==
    IF d = "pass" THEN [status |-> "search_next", ai_message |-> "not_your_vibe", block |-> TRUE]
    ELSE IF other = "none" THEN [status |-> "waiting", ai_message |-> "waiting", block |-> FALSE]
    ELSE [status |-> "meeting", ai_message |-> "null", block |-> FALSE]

Outcome_pass_after_meet_unblocked(d, other) ==
    IF d = "pass"
    THEN [status |-> "search_next", ai_message |-> "not_your_vibe", block |-> other # "meet"]
    ELSE IF other = "none" THEN [status |-> "waiting", ai_message |-> "waiting", block |-> FALSE]
    ELSE IF other = "pass" THEN [status |-> "search_next", ai_message |-> "not_aligned", block |-> TRUE]
    ELSE [status |-> "meeting", ai_message |-> "null", block |-> FALSE]

Outcome_meet_waits(d, other) ==
    IF d = "pass" THEN [status |-> "search_next", ai_message |-> "not_your_vibe", block |-> TRUE]
    ELSE IF other = "pass" THEN [status |-> "search_next", ai_message |-> "not_aligned", block |-> TRUE]
    ELSE [status |-> "waiting", ai_message |-> "waiting", block |-> FALSE]

Outcome(d, other) ==
    IF d = "pass" THEN [status |-> "search_next", ai_message |-> "not_your_vibe", block |-> TRUE]
    ELSE IF other = "none" THEN [status |-> "waiting", ai_message |-> "waiting", block |-> FALSE]
    ELSE IF other = "pass" THEN [status |-> "search_next", ai_message |-> "not_aligned", block |-> TRUE]
    ELSE [status |-> "meeting", ai_message |-> "null", block |-> FALSE]

reveal_decision_v2_no_self_check(user_id, other_user_id, cid, d) ==
    LET today == day_key(now) IN
    IF _is_blocked(blocklist, user_id, other_user_id)
    THEN /\ resp' = DecisionResp(200, "search_next", "already_handled", 1, today)
         /\ UNCHANGED <<outsideVars, connections, messages, workers, passes, schema, now, cycle, decisions, blocklist, tx, presence, shown>>
    ELSE LET es == _ensure_daily_slot(cycle, user_id, other_user_id, cid, today) IN
         IF ~es.ok
         THEN /\ resp' = DecisionResp(429, "error", "cycle_full", 0, today)
              /\ UNCHANGED <<outsideVars, connections, messages, workers, passes, schema, now, cycle, decisions, blocklist, tx, presence, shown>>
         ELSE LET ds    == StoreDecision(decisions, cid, user_id, other_user_id, d)
                  other == OtherDecision(ds, cid, other_user_id)
                  out   == Outcome(d, other)
              IN  /\ cycle' = es.cycle
                  /\ decisions' = ds
                  /\ blocklist' = IF out.block
                                  THEN _insert_block(blocklist, user_id, other_user_id,
                                                     "passed", cid)
                                  ELSE blocklist
                  /\ resp' = DecisionResp(200, out.status, out.ai_message, es.slot, today)
                  /\ UNCHANGED <<outsideVars, connections, messages, workers, passes, schema, now, tx, presence, shown>>

\* ------------------------------------------------------------------------
\* POST /v2/reveal/decision, served as one transaction
\* ------------------------------------------------------------------------
reveal_decision_v2(user_id, other_user_id, cid, d) ==
    LET today == day_key(now) IN
    IF other_user_id = user_id
    THEN /\ resp' = DecisionResp(400, "error", "self", 0, today)
         /\ UNCHANGED <<outsideVars, connections, messages, workers, passes, schema, now, cycle, decisions, blocklist, tx, presence, shown>>
    ELSE IF _is_blocked(blocklist, user_id, other_user_id)
    THEN /\ resp' = DecisionResp(200, "search_next", "already_handled", 1, today)
         /\ UNCHANGED <<outsideVars, connections, messages, workers, passes, schema, now, cycle, decisions, blocklist, tx, presence, shown>>
    ELSE LET es == _ensure_daily_slot(cycle, user_id, other_user_id, cid, today) IN
         IF ~es.ok
         THEN \* HTTPException(429): the session is closed without commit
              /\ resp' = DecisionResp(429, "error", "cycle_full", 0, today)
              /\ UNCHANGED <<outsideVars, connections, messages, workers, passes, schema, now, cycle, decisions, blocklist, tx, presence, shown>>
         ELSE LET ds    == StoreDecision(decisions, cid, user_id, other_user_id, d)
                  other == OtherDecision(ds, cid, other_user_id)
                  out   == Outcome(d, other)
              IN  /\ cycle' = es.cycle
                  /\ decisions' = ds
                  /\ blocklist' = IF out.block
                                  THEN _insert_block(blocklist, user_id, other_user_id,
                                                     "passed", cid)
                                  ELSE blocklist
                  /\ resp' = DecisionResp(200, out.status, out.ai_message, es.slot, today)
                  /\ UNCHANGED <<outsideVars, connections, messages, workers, passes, schema, now, tx, presence, shown>>

\* ------------------------------------------------------------------------
\* POST /v2/reveal/decision, statement by statement.  Each worker runs the
\* handler in a transaction of its own session (autocommit=False); the engine
\* is created without an isolation level, which is PostgreSQL's READ
\* COMMITTED: a statement reads the rows committed when it starts and the
\* transaction's own writes, and an insert ... on conflict on a key that
\* another open transaction has written waits for that transaction to end.
\* ------------------------------------------------------------------------
IdleTx ==
    [pc |-> "idle", req |-> [op |-> "none"], slot |-> 0, other |-> "none",
     w_cycle |-> {}, w_decision |-> FALSE, w_block |-> FALSE, resp |-> NoResp]

InFlight(p) == tx[p].pc \notin {"idle", "done"}

\* What a statement of worker p reads.
ViewCycle(p) == cycle \cup tx[p].w_cycle
ViewDecisions(p) ==
    IF tx[p].w_decision
    THEN StoreDecision(decisions, tx[p].req.cid, tx[p].req.user_id,
                       tx[p].req.other_user_id, tx[p].req.decision)
    ELSE decisions

\* Lines 136-146: the self check and the block check open the transaction.
TxBegin(p, q) ==
    /\ tx[p].pc = "idle"
    /\ LET today == day_key(now) IN
       tx' = [tx EXCEPT ![p] =
                IF q.other_user_id = q.user_id
                THEN [IdleTx EXCEPT !.pc = "done", !.req = q,
                         !.resp = DecisionResp(400, "error", "self", 0, today)]
                ELSE IF _is_blocked(blocklist, q.user_id, q.other_user_id)
                THEN [IdleTx EXCEPT !.pc = "done", !.req = q,
                         !.resp = DecisionResp(200, "search_next", "already_handled", 1, today)]
                ELSE [IdleTx EXCEPT !.pc = "existing", !.req = q]]
    /\ UNCHANGED <<outsideVars, connections, messages, workers, passes, schema, now, cycle, decisions, blocklist, resp, presence, shown>>

\* Lines 78-89: select slot ... where viewer_id, day_key, target_id
TxSelectExisting(p) ==
    /\ tx[p].pc = "existing"
    /\ LET q == tx[p].req
           existing == { r \in CycleRows(ViewCycle(p), q.user_id, day_key(now)) :
                           r.target_id = q.other_user_id }
       IN  \/ /\ existing = {}
              /\ tx' = [tx EXCEPT ![p].pc = "assign"]
           \/ \E e \in existing :
                 tx' = [tx EXCEPT ![p].pc = "store", ![p].slot = e.slot]
    /\ UNCHANGED <<outsideVars, connections, messages, workers, passes, schema, now, cycle, decisions, blocklist, resp, presence, shown>>

\* Lines 91-123: select the used slots, insert at the first free one or
\* raise 429 (the session is then closed without commit).
TxAssignSlot(p) ==
    /\ tx[p].pc = "assign"
    /\ LET q  == tx[p].req
           es == AssignSlot(ViewCycle(p), q.user_id, q.other_user_id, q.cid, day_key(now))
       IN  tx' = [tx EXCEPT ![p] =
                    IF es.ok
                    THEN [@ EXCEPT !.pc = "store", !.slot = es.slot,
                                   !.w_cycle = es.cycle \ cycle]
                    ELSE [@ EXCEPT !.pc = "done",
                                   !.resp = DecisionResp(429, "error", "cycle_full", 0,
                                                         day_key(now))]]
    /\ UNCHANGED <<outsideVars, connections, messages, workers, passes, schema, now, cycle, decisions, blocklist, resp, presence, shown>>

\* Lines 155-170: the upsert of my decision; it waits while another open
\* transaction holds an uncommitted write of the same (conversation_id, user_id).
TxStoreDecision(p) ==
    /\ tx[p].pc = "store"
    /\ \A o \in Procs \ {p} :
          ~(/\ InFlight(o) /\ tx[o].w_decision
            /\ tx[o].req.cid = tx[p].req.cid
            /\ tx[o].req.user_id = tx[p].req.user_id)
    /\ tx' = [tx EXCEPT ![p].pc = "other", ![p].w_decision = TRUE]
    /\ UNCHANGED <<outsideVars, connections, messages, workers, passes, schema, now, cycle, decisions, blocklist, resp, presence, shown>>

\* Lines 172-183: read the counterpart's decision.
TxSelectOther(p) ==
    /\ tx[p].pc = "other"
    /\ LET other == OtherDecision(ViewDecisions(p), tx[p].req.cid, tx[p].req.other_user_id)
       IN  tx' = [tx EXCEPT ![p].other = other,
                            ![p].pc = IF Outcome(tx[p].req.decision, other).block
                                      THEN "block" ELSE "commit"]
    /\ UNCHANGED <<outsideVars, connections, messages, workers, passes, schema, now, cycle, decisions, blocklist, resp, presence, shown>>

\* Lines 189 / 215: _insert_block; it waits while another open transaction
\* holds an uncommitted write of the same (user_low, user_high).
TxInsertBlock(p) ==
    /\ tx[p].pc = "block"
    /\ \A o \in Procs \ {p} :
          ~(/\ InFlight(o) /\ tx[o].w_block
            /\ _pair_low_high(tx[o].req.user_id, tx[o].req.other_user_id)
                 = _pair_low_high(tx[p].req.user_id, tx[p].req.other_user_id))
    /\ tx' = [tx EXCEPT ![p].pc = "commit", ![p].w_block = TRUE]
    /\ UNCHANGED <<outsideVars, connections, messages, workers, passes, schema, now, cycle, decisions, blocklist, resp, presence, shown>>

TxCommit_before_block(p) ==
    /\ tx[p].pc = "commit"
    /\ LET q   == tx[p].req
           out == Outcome(q.decision, tx[p].other)
       IN  /\ cycle' = cycle \cup tx[p].w_cycle
           /\ decisions' = StoreDecision(decisions, q.cid, q.user_id, q.other_user_id,
                                         q.decision)
           /\ blocklist' = blocklist
           /\ tx' = [tx EXCEPT ![p].pc = "done", ![p].w_cycle = {},
                               ![p].w_decision = FALSE, ![p].w_block = FALSE,
                               ![p].resp = DecisionResp(200, out.status, out.ai_message,
                                                        tx[p].slot, day_key(now))]
    /\ UNCHANGED <<outsideVars, connections, messages, workers, passes, schema, now, resp, presence, shown>>

\* db.commit() and the return of RevealDecisionOut.
TxCommit(p) ==
    /\ tx[p].pc = "commit"
    /\ LET q   == tx[p].req
           out == Outcome(q.decision, tx[p].other)
       IN  /\ cycle' = cycle \cup tx[p].w_cycle
           /\ decisions' = StoreDecision(decisions, q.cid, q.user_id, q.other_user_id,
                                         q.decision)
           /\ blocklist' = IF tx[p].w_block
                           THEN _insert_block(blocklist, q.user_id, q.other_user_id,
                                              "passed", q.cid)
                           ELSE blocklist
           /\ tx' = [tx EXCEPT ![p].pc = "done", ![p].w_cycle = {},
                               ![p].w_decision = FALSE, ![p].w_block = FALSE,
                               ![p].resp = DecisionResp(200, out.status, out.ai_message,
                                                        tx[p].slot, day_key(now))]
    /\ UNCHANGED <<outsideVars, connections, messages, workers, passes, schema, now, resp, presence, shown>>

\* get_db's finally: db.close() once the response is out.
TxClose(p) ==
    /\ tx[p].pc = "done"
    /\ tx' = [tx EXCEPT ![p] = IdleTx]
    /\ UNCHANGED <<outsideVars, connections, messages, workers, passes, schema, now, cycle, decisions, blocklist, resp, presence, shown>>

\* ------------------------------------------------------------------------
\* src/app/api/push.py : reveal after two senders, three-strikes decisions
\* ------------------------------------------------------------------------
\* The conversations message webhooks and three-strikes decisions are sent
\* for, and the requests in service at the same time.
PushConvs == {"c1"}
PushProcs == {"p1", "p2"}
SETTLE_DELAY_SECONDS == 2

\* A row of public.connections, keyed by id = conversation_id.  A
\* decline_count of 0 stands for NULL or 0, which the code reads alike
\* ((row["decline_count"] or 0)).
NoConnection == [present |-> FALSE]
PendingConnection(requester_id, target_id) ==
    [present |-> TRUE, requester_id |-> requester_id, target_id |-> target_id,
     status |-> "pending", revealed_at |-> Null, decline_count |-> 0]

NoWrite == [present |-> FALSE]
IdleWorker == [pc |-> "idle"]

\* conversation_participants of a conversation, as the list Supabase returns
participants(conversation_id) ==
    LET pair == ConvPairs[conversation_id]
        a    == CHOOSE x \in pair : \A y \in pair : x = y \/ StrLess(x, y)
    IN  <<a, CHOOSE y \in pair : y # a>>

_local_mark_revealed_overwrites(row, requester_id, target_id, t) ==
    IF ~row.present
    THEN [present |-> TRUE, requester_id |-> requester_id, target_id |-> target_id,
          status |-> "accepted", revealed_at |-> t, decline_count |-> 0]
    ELSE [row EXCEPT !.revealed_at = t, !.status = "accepted"]

\* insert ... on conflict (id) do update set
\*   revealed_at = coalesce(connections.revealed_at, excluded.revealed_at),
\*   status = excluded.status
_local_mark_revealed(row, requester_id, target_id, t) ==
    IF ~row.present
    THEN [present |-> TRUE, requester_id |-> requester_id, target_id |-> target_id,
          status |-> "accepted", revealed_at |-> t, decline_count |-> 0]
    ELSE [row EXCEPT !.revealed_at = IF row.revealed_at # Null
                                     THEN row.revealed_at ELSE t,
                     !.status = "accepted"]

_local_is_revealed(conversation_id) ==
    /\ connections[conversation_id].present
    /\ connections[conversation_id].revealed_at # Null

\* The sets _supabase_get_distinct_senders can return: the sender ids of the
\* conversation's messages, or the empty set when Supabase answers >= 400.
_supabase_get_distinct_senders(conversation_id) ==
    { messages[conversation_id], {} }

TwoSenders_one_is_enough(distinct_senders) == Cardinality(distinct_senders) >= 1

\* not (len(distinct_senders) < 2)
TwoSenders(distinct_senders) == ~(Cardinality(distinct_senders) < 2)

EngineBeginExit_left_open(wk) == wk

\* The end of a "with engine.begin() as conn" block: the transaction is
\* over and the connection is back in the pool of the one process-wide
\* engine.
EngineBeginExit(wk) == [wk EXCEPT !.conn = FALSE]

\* Another request holds an uncommitted write of the row: a statement that
\* writes the row waits for it.
RowLocked(p, conversation_id) ==
    \E q \in PushProcs \ {p} :
        /\ workers[q].pc \in {"mark", "strike_commit"}
        /\ workers[q].conversation_id = conversation_id

\* A message is stored in Supabase (table messages).
SendMessage(conversation_id, sender_id) ==
    /\ messages' = [messages EXCEPT ![conversation_id] = @ \cup {sender_id}]
    /\ UNCHANGED <<outsideVars, connections, workers, passes, schema, now, cycle, decisions,
                   blocklist, resp, tx, presence, shown>>

\* POST /v1/webhooks/supabase/messages, up to the select of
\* _local_is_revealed: the record names a conversation with participants
\* other than the sender.
WebhookBegin(p, conversation_id, sender_id) ==
    /\ workers[p].pc = "idle"
    /\ sender_id \in messages[conversation_id]
    /\ SeqRange(participants(conversation_id)) \ {sender_id} # {}
    /\ workers' = [workers EXCEPT ![p] =
          [pc |-> "is_revealed", conversation_id |-> conversation_id,
           conn |-> TRUE, seen |-> _local_is_revealed(conversation_id),
           since |-> Null, w |-> NoWrite]]
    /\ UNCHANGED <<outsideVars, connections, messages, passes, schema, now, cycle, decisions,
                   blocklist, resp, tx, presence, shown>>

\* _local_is_revealed returns; _maybe_reveal_after_two_senders returns True
\* if the conversation is revealed.
IsRevealedReturn(p) ==
    /\ workers[p].pc = "is_revealed"
    /\ workers' = [workers EXCEPT ![p] =
          [EngineBeginExit(@) EXCEPT !.pc = IF workers[p].seen THEN "push"
                                            ELSE "senders"]]
    /\ UNCHANGED <<outsideVars, connections, messages, passes, schema, now, cycle, decisions,
                   blocklist, resp, tx, presence, shown>>

\* Lines 249-262: the distinct senders are fetched; with fewer than two the
\* call returns False, else the settle delay starts.
GetDistinctSenders(p) ==
    /\ workers[p].pc = "senders"
    /\ \E distinct_senders \in _supabase_get_distinct_senders(workers[p].conversation_id) :
          workers' = [workers EXCEPT ![p] =
             IF TwoSenders(distinct_senders)
                /\ ~(Len(participants(workers[p].conversation_id)) < 2)
             THEN [@ EXCEPT !.pc = "sleep", !.since = now]
             ELSE [@ EXCEPT !.pc = "push"]]
    /\ UNCHANGED <<outsideVars, connections, messages, passes, schema, now, cycle, decisions,
                   blocklist, resp, tx, presence, shown>>

\* await asyncio.sleep(2) is over; _local_mark_revealed opens a transaction
\* and executes the upsert, which waits while another transaction holds an
\* uncommitted write of the row.
SettleDone(p) ==
    /\ workers[p].pc = "sleep"
    /\ now >= workers[p].since + SETTLE_DELAY_SECONDS
    /\ ~RowLocked(p, workers[p].conversation_id)
    /\ LET cid == workers[p].conversation_id
           ps  == participants(cid)
       IN  workers' = [workers EXCEPT ![p] =
              [@ EXCEPT !.pc = "mark", !.conn = TRUE, !.since = Null,
                        !.w = _local_mark_revealed(connections[cid], ps[1], ps[2], now)]]
    /\ UNCHANGED <<outsideVars, connections, messages, passes, schema, now, cycle, decisions,
                   blocklist, resp, tx, presence, shown>>

\* The transaction of _local_mark_revealed commits.
MarkCommit(p) ==
    /\ workers[p].pc = "mark"
    /\ connections' = [connections EXCEPT ![workers[p].conversation_id] = workers[p].w]
    /\ workers' = [workers EXCEPT ![p] =
          [EngineBeginExit(@) EXCEPT !.pc = "push", !.seen = TRUE, !.w = NoWrite]]
    /\ UNCHANGED <<outsideVars, messages, passes, schema, now, cycle, decisions,
                   blocklist, resp, tx, presence, shown>>

\* Lines 321-358: the pushes are sent with revealReady and the webhook
\* answers.
WebhookEnd(p) ==
    /\ workers[p].pc = "push"
    /\ resp' = [op |-> "webhook", conversation_id |-> workers[p].conversation_id,
                reveal_ready |-> workers[p].seen]
    /\ workers' = [workers EXCEPT ![p] = IdleWorker]
    /\ UNCHANGED <<outsideVars, connections, messages, passes, schema, now, cycle, decisions,
                   blocklist, tx, presence, shown>>

\* GET /v1/reveal/profile
get_revealed_profile(conversation_id, other_user_id, has_media) ==
    LET row == connections[conversation_id]
    IN  /\ resp' = IF ~row.present \/ row.revealed_at = Null
                   THEN [op |-> "profile", http |-> 403, detail |-> "Not revealed yet"]
                   ELSE [op |-> "profile", http |-> 200,
                         detail |-> IF has_media THEN "primaryPhotoUrl" ELSE "None"]
        /\ UNCHANGED <<outsideVars, connections, messages, workers, passes, schema, now, cycle,
                       decisions, blocklist, tx, presence, shown>>

\* Lines 419-452: the row reveal_decision writes, from the decline_count it
\* read.
DeclineRow(row, decision, decline_count) ==
    IF decision = "meet" THEN [row EXCEPT !.status = "accepted"]
    ELSE IF decline_count + 1 >= 3 THEN [row EXCEPT !.status = "expired"]
    ELSE [row EXCEPT !.decline_count = decline_count + 1, !.status = "rejected"]

DeclineStatus(decision, decline_count) ==
    IF decision = "meet" THEN "meeting"
    ELSE IF decline_count + 1 >= 3 THEN "ended"
    ELSE "search_next"

\* POST /v1/reveal/decision, lines 407-417: the transaction begins and reads
\* decline_count; without a row the call fails with 404.
StrikeBegin(p, conversation_id, decision) ==
    /\ workers[p].pc = "idle"
    /\ IF ~connections[conversation_id].present
       THEN /\ resp' = [op |-> "strike", http |-> 404, status |-> "Connection not found",
                        conversation_id |-> conversation_id, decision |-> decision]
            /\ UNCHANGED workers
       ELSE /\ workers' = [workers EXCEPT ![p] =
                  [pc |-> "strike", conversation_id |-> conversation_id,
                   conn |-> TRUE, seen |-> connections[conversation_id].decline_count,
                   since |-> Null, w |-> NoWrite, decision |-> decision]]
            /\ UNCHANGED resp
    /\ UNCHANGED <<outsideVars, connections, messages, passes, schema, now, cycle, decisions,
                   blocklist, tx, presence, shown>>

\* The update statement of the decision: it waits while another transaction
\* holds an uncommitted write of the row, then writes the row as committed
\* by then, with the decline_count computed from the value read before.
StrikeUpdate(p) ==
    /\ workers[p].pc = "strike"
    /\ ~RowLocked(p, workers[p].conversation_id)
    /\ workers' = [workers EXCEPT ![p] =
          [@ EXCEPT !.pc = "strike_commit",
                    !.w = DeclineRow(connections[workers[p].conversation_id],
                                     workers[p].decision, workers[p].seen)]]
    /\ UNCHANGED <<outsideVars, connections, messages, passes, schema, now, cycle, decisions,
                   blocklist, resp, tx, presence, shown>>

\* The transaction commits and the decision is answered.
StrikeCommit(p) ==
    /\ workers[p].pc = "strike_commit"
    /\ LET cid == workers[p].conversation_id
       IN  /\ connections' = [connections EXCEPT ![cid] = workers[p].w]
           /\ passes' = [passes EXCEPT ![cid] =
                           IF workers[p].decision = "pass" THEN @ + 1 ELSE @]
           /\ resp' = [op |-> "strike", http |-> 200,
                       status |-> DeclineStatus(workers[p].decision, workers[p].seen),
                       conversation_id |-> cid, decision |-> workers[p].decision]
    /\ workers' = [workers EXCEPT ![p] = IdleWorker]
    /\ UNCHANGED <<outsideVars, messages, schema, now, cycle, decisions,
                   blocklist, tx, presence, shown>>

\* ------------------------------------------------------------------------
\* app/core/auth.py : verification of a bearer token against the issuer's
\* key set (JWKS mode).  The dependency get_current_user_id is a plain
\* function, so the requests of one process verify their tokens on the
\* threads of the server's pool, all sharing the module-level _JWKS_CACHE.
\* ------------------------------------------------------------------------
Kids == {"k1", "k2"}

_JWKS_TTL_SECONDS == 600

\* The issuer signs with k1, introduces k2 beside it and then retires k1.
Rotation == <<{"k1"}, {"k1", "k2"}, {"k2"}>>

AuthProcs == {"t1", "t2"}

\* A name that holds None or a JWKS document: the empty set, or the set of
\* the one document (its keys, by key id).
NoJwks == {}
Jwks(keys) == {keys}
HasKey(jwks, kid) == \E keys \in jwks : kid \in keys

\* _JWKS_CACHE: Dict[str, Any] = {"ts": 0, "jwks": None}
\* The "ts" of 0 is the epoch: when the process starts, at time 0 of the run,
\* it lies more than a TTL back.
EmptyCache == [ts |-> 0 - _JWKS_TTL_SECONDS, jwks |-> NoJwks]

\* The locals of one call of _verify_jwt_jwks: its position, the kid of the
\* token's header, the time read by _get_cached_jwks, the key set in hand,
\* whether the cache was already dropped for a refresh, and the fetches made
\* after that.
IdleAuth ==
    [pc |-> "idle", kid |-> "k1", t |-> 0, jwks |-> NoJwks,
     refreshed |-> FALSE, refetches |-> 0, result |-> "none"]

\* Lines 149-170: the header carries a kid and alg ES256; _get_cached_jwks is
\* called.
AuthBegin(p, kid) ==
    /\ auth[p].pc = "idle"
    /\ auth' = [auth EXCEPT ![p] = [IdleAuth EXCEPT !.pc = "get", !.kid = kid]]
    /\ UNCHANGED <<engineVars, onbVars, svcVars, _JWKS_CACHE, issuer, last_fetched>>

\* if _JWKS_CACHE["jwks"] and now - _JWKS_CACHE["ts"] < _JWKS_TTL_SECONDS
Young(cache, t) == cache.jwks # NoJwks /\ t - cache.ts < _JWKS_TTL_SECONDS

\* Lines 91-96: the time is read and the cache is tested.
GetCachedTest(p) ==
    /\ auth[p].pc = "get"
    /\ auth' = [auth EXCEPT ![p].t = now,
                            ![p].pc = IF Young(_JWKS_CACHE, now) THEN "hit" ELSE "fetch"]
    /\ UNCHANGED <<engineVars, onbVars, svcVars, _JWKS_CACHE, issuer, last_fetched>>

\* Line 97: return _JWKS_CACHE["jwks"], read again.
GetCachedHit(p) ==
    /\ auth[p].pc = "hit"
    /\ auth' = [auth EXCEPT ![p].jwks = _JWKS_CACHE.jwks, ![p].pc = "lookup"]
    /\ UNCHANGED <<engineVars, onbVars, svcVars, _JWKS_CACHE, issuer, last_fetched>>

\* Line 99, _fetch_jwks (lines 53-87): the issuer's document of the moment,
\* or HTTPException(500) for a failed or malformed answer.
FetchJwks(p) ==
    /\ auth[p].pc = "fetch"
    /\ \/ /\ auth' = [auth EXCEPT ![p].jwks = Jwks(Rotation[issuer]), ![p].pc = "store",
                                  ![p].refetches = IF auth[p].refreshed THEN @ + 1 ELSE @]
          /\ last_fetched' = Jwks(Rotation[issuer])
       \/ /\ auth' = [auth EXCEPT ![p].pc = "done", ![p].result = "500"]
          /\ UNCHANGED last_fetched
    /\ UNCHANGED <<engineVars, onbVars, svcVars, _JWKS_CACHE, issuer>>

\* Line 100: _JWKS_CACHE["jwks"] = jwks
StoreJwks(p) ==
    /\ auth[p].pc = "store"
    /\ _JWKS_CACHE' = [_JWKS_CACHE EXCEPT !.jwks = auth[p].jwks]
    /\ auth' = [auth EXCEPT ![p].pc = "store_ts"]
    /\ UNCHANGED <<engineVars, onbVars, svcVars, issuer, last_fetched>>

\* Line 101: _JWKS_CACHE["ts"] = now
StoreTs(p) ==
    /\ auth[p].pc = "store_ts"
    /\ _JWKS_CACHE' = [_JWKS_CACHE EXCEPT !.ts = auth[p].t]
    /\ auth' = [auth EXCEPT ![p].pc = "lookup"]
    /\ UNCHANGED <<engineVars, onbVars, svcVars, issuer, last_fetched>>

\* Lines 172-200: the key of the token's kid is looked up in the set in hand
\* (None["keys"] raises: 500).  A hit goes to jwt.decode, which accepts the
\* token or raises 401 for its signature or expiry; the first miss drops
\* the cached set (line 179) and calls _get_cached_jwks again; the second miss
\* is 401 'Public key not found for kid'.
LookupKey(p) ==
    /\ auth[p].pc = "lookup"
    /\ LET a == auth[p] IN
       IF a.jwks = NoJwks
       THEN /\ auth' = [auth EXCEPT ![p].pc = "done", ![p].result = "500"]
            /\ UNCHANGED _JWKS_CACHE
       ELSE IF HasKey(a.jwks, a.kid)
       THEN /\ \E result \in {"accepted", "401_invalid"} :
                  auth' = [auth EXCEPT ![p].pc = "done", ![p].result = result]
            /\ UNCHANGED _JWKS_CACHE
       ELSE IF ~a.refreshed
       THEN /\ _JWKS_CACHE' = [_JWKS_CACHE EXCEPT !.jwks = NoJwks]
            /\ auth' = [auth EXCEPT ![p].pc = "get", ![p].refreshed = TRUE]
       ELSE /\ auth' = [auth EXCEPT ![p].pc = "done", ![p].result = "401_no_key"]
            /\ UNCHANGED _JWKS_CACHE
    /\ UNCHANGED <<engineVars, onbVars, svcVars, issuer, last_fetched>>

\* The verification returns or raises; the thread takes the next request.
AuthReturn(p) ==
    /\ auth[p].pc = "done"
    /\ auth' = [auth EXCEPT ![p] = IdleAuth]
    /\ UNCHANGED <<engineVars, onbVars, svcVars, _JWKS_CACHE, issuer, last_fetched>>

\* The issuer rotates its keys.
Rotate ==
    /\ issuer < Len(Rotation)
    /\ issuer' = issuer + 1
    /\ UNCHANGED <<engineVars, onbVars, svcVars, _JWKS_CACHE, auth, last_fetched>>

\* ------------------------------------------------------------------------
\* app/api/routes/onboarding.py : the onboarding wizard, over the tables
\* onboarding_state (one row per user), profiles and media_items
\* ------------------------------------------------------------------------
\* class OnboardingStep(str, Enum), in its order of declaration
OnboardingStep == <<"location", "prefs", "intent", "lifestyle", "media", "note", "done">>

\* The position of a step in OnboardingStep.
StepIndex(step) == CHOOSE i \in DOMAIN OnboardingStep : OnboardingStep[i] = step

OnbUsers == {U1}

NoState == [present |-> FALSE]
NoProfile == [present |-> FALSE]

\* Profile(user_id=user_id): every other column None
NewProfile ==
    [present |-> TRUE, height_inches |-> Null, height_preferences |-> "null",
     wingman_style |-> "null", intent |-> "null", lifestyle_tags |-> <<>>,
     note_text |-> "null"]

\* db.get(Profile, user_id) or Profile(user_id=user_id)
ProfileOf(user_id) ==
    IF profiles[user_id].present THEN profiles[user_id] ELSE NewProfile

\* The request bodies of a run.
PrefsPayloads ==
    { [height_inches |-> 70, height_preferences |-> "any", wingman_style |-> "wingman"] }
IntentPayloads == {"dating"}
LifestylePayloads == { <<"gym">> }
MediaPayloads ==
    { <<>>, << [media_type |-> "photo", order_index |-> 0, is_primary |-> TRUE] >> }
NotePayloads == {"", "hi"}

\* OnboardingStateResponse, or HTTPException(400)
OnboardingResp(op, completed, current_step, next_route) ==
    [op |-> op, http |-> 200, completed |-> completed,
     current_step |-> current_step, next_route |-> next_route]

OnboardingError(op, detail) == [op |-> op, http |-> 400, detail |-> detail]

\* What a handler of the onboarding or connections routes leaves alone in
\* the reveal engine: everything but the response.
engineTables == <<now, cycle, decisions, blocklist, tx, presence, shown, schema,
                  connections, messages, workers, passes>>

\* POST /onboarding/start
start_onboarding(user_id, version) ==
    LET state == onboarding_state[user_id] IN
    /\ IF state.present
       THEN /\ resp' = OnboardingResp("start", state.completed, state.current_step,
                          IF state.completed THEN "null" ELSE state.current_step)
            /\ UNCHANGED onboarding_state
       ELSE /\ onboarding_state' = [onboarding_state EXCEPT ![user_id] =
                   [present |-> TRUE, version |-> version, completed |-> FALSE,
                    current_step |-> "location", completed_at |-> Null]]
            /\ resp' = OnboardingResp("start", FALSE, "location", "location")
    /\ UNCHANGED <<engineTables, authVars, svcVars, profiles, media_items>>

\* PUT /onboarding/location
save_location(user_id) ==
    LET state == onboarding_state[user_id] IN
    /\ IF ~state.present
       THEN /\ resp' = OnboardingError("save_location", "not_started")
            /\ UNCHANGED onboarding_state
       ELSE /\ onboarding_state' = [onboarding_state EXCEPT ![user_id].current_step = "prefs"]
            /\ resp' = OnboardingResp("save_location", FALSE, "prefs", "prefs")
    /\ UNCHANGED <<engineTables, authVars, svcVars, profiles, media_items>>

\* PUT /onboarding/prefs
save_prefs(user_id, payload) ==
    LET state == onboarding_state[user_id] IN
    /\ IF ~state.present
       THEN /\ resp' = OnboardingError("save_prefs", "not_started")
            /\ UNCHANGED <<onboarding_state, profiles>>
       ELSE /\ profiles' = [profiles EXCEPT ![user_id] =
                   [ProfileOf(user_id) EXCEPT
                       !.height_inches = payload.height_inches,
                       !.height_preferences = payload.height_preferences,
                       !.wingman_style = payload.wingman_style]]
            /\ onboarding_state' = [onboarding_state EXCEPT ![user_id].current_step = "intent"]
            /\ resp' = OnboardingResp("save_prefs", FALSE, "intent", "intent")
    /\ UNCHANGED <<engineTables, authVars, svcVars, media_items>>

\* PUT /onboarding/intent
save_intent(user_id, intent) ==
    LET state == onboarding_state[user_id] IN
    /\ IF ~state.present
       THEN /\ resp' = OnboardingError("save_intent", "not_started")
            /\ UNCHANGED <<onboarding_state, profiles>>
       ELSE /\ profiles' = [profiles EXCEPT ![user_id] =
                   [ProfileOf(user_id) EXCEPT !.intent = intent]]
            /\ onboarding_state' = [onboarding_state EXCEPT ![user_id].current_step = "lifestyle"]
            /\ resp' = OnboardingResp("save_intent", FALSE, "lifestyle", "lifestyle")
    /\ UNCHANGED <<engineTables, authVars, svcVars, media_items>>

\* PUT /onboarding/lifestyle
save_lifestyle(user_id, lifestyle_tags) ==
    LET state == onboarding_state[user_id] IN
    /\ IF ~state.present \/ state.current_step # "lifestyle"
       THEN /\ resp' = OnboardingError("save_lifestyle", "invalid_state")
            /\ UNCHANGED <<onboarding_state, profiles>>
       ELSE /\ profiles' = [profiles EXCEPT ![user_id] =
                   [ProfileOf(user_id) EXCEPT !.lifestyle_tags = lifestyle_tags]]
            /\ onboarding_state' = [onboarding_state EXCEPT ![user_id].current_step = "media"]
            /\ resp' = OnboardingResp("save_lifestyle", FALSE, "media", "media")
    /\ UNCHANGED <<engineTables, authVars, svcVars, media_items>>

\* PUT /onboarding/media: the user's items are replaced by those of the body
save_media(user_id, items) ==
    LET state == onboarding_state[user_id] IN
    /\ IF ~state.present \/ state.current_step # "media"
       THEN /\ resp' = OnboardingError("save_media", "invalid_state")
            /\ UNCHANGED <<onboarding_state, media_items>>
       ELSE /\ media_items' = [media_items EXCEPT ![user_id] = items]
            /\ onboarding_state' = [onboarding_state EXCEPT ![user_id].current_step = "note"]
            /\ resp' = OnboardingResp("save_media", FALSE, "note", "note")
    /\ UNCHANGED <<engineTables, authVars, svcVars, profiles>>

\* PUT /onboarding/note
save_note(user_id, note_text) ==
    LET state == onboarding_state[user_id] IN
    /\ IF ~state.present \/ state.current_step # "note"
       THEN /\ resp' = OnboardingError("save_note", "invalid_state")
            /\ UNCHANGED <<onboarding_state, profiles>>
       ELSE /\ profiles' = IF note_text # ""
                           THEN [profiles EXCEPT ![user_id] =
                                   [ProfileOf(user_id) EXCEPT !.note_text = note_text]]
                           ELSE profiles
            /\ onboarding_state' = [onboarding_state EXCEPT
                   ![user_id].completed = TRUE,
                   ![user_id].completed_at = now,
                   ![user_id].current_step = "done"]
            /\ resp' = OnboardingResp("save_note", TRUE, "done", "null")
    /\ UNCHANGED <<engineTables, authVars, svcVars, media_items>>

\* ------------------------------------------------------------------------
\* app/modules/connections/service.py : connection requests, over the ORM
\* tables connections and conversations (integer primary keys, issued in
\* sequence)
\* ------------------------------------------------------------------------
SvcUsers == {U1, U2, U3}
MaxConnections == 2
MaxConversations == 3

ConnectResp(op, http, id, status) ==
    [op |-> op, http |-> http, id |-> id, status |-> status]

\* db.query(Connection).filter(Connection.id == connection_id).first()
ConnectionById(connection_id) == { c \in connection_rows : c.id = connection_id }

\* POST /v1/connect/request
request_connection(requester_id, target_id) ==
    LET existing == { c \in connection_rows :
                        /\ \/ c.requester_id = requester_id /\ c.target_id = target_id
                           \/ c.requester_id = target_id /\ c.target_id = requester_id
                        /\ c.status \in {"pending", "accepted"} }
    IN
    /\ IF requester_id = target_id
       THEN /\ resp' = ConnectResp("request", 400, 0, "self")
            /\ UNCHANGED connection_rows
       ELSE IF existing # {}
       THEN /\ \E c \in existing : resp' = ConnectResp("request", 200, c.id, c.status)
            /\ UNCHANGED connection_rows
       ELSE /\ Cardinality(connection_rows) < MaxConnections
            /\ LET id == Cardinality(connection_rows) + 1 IN
               /\ connection_rows' = connection_rows \cup
                     { [id |-> id, requester_id |-> requester_id,
                        target_id |-> target_id, status |-> "pending"] }
               /\ resp' = ConnectResp("request", 200, id, "pending")
    /\ UNCHANGED <<engineTables, authVars, onbVars, conversation_rows, opened>>

\* POST /v1/connect/accept
accept_connection(connection_id, accepter_id) ==
    LET found == ConnectionById(connection_id) IN
    /\ IF found = {}
       THEN /\ resp' = ConnectResp("accept", 400, 0, "not_found")
            /\ UNCHANGED <<connection_rows, conversation_rows, opened>>
       ELSE LET conn == CHOOSE c \in found : TRUE IN
            IF accepter_id \notin {conn.requester_id, conn.target_id}
            THEN /\ resp' = ConnectResp("accept", 400, 0, "not_authorized")
                 /\ UNCHANGED <<connection_rows, conversation_rows, opened>>
            ELSE /\ Cardinality(conversation_rows) < MaxConversations
                 /\ LET id == Cardinality(conversation_rows) + 1 IN
                    /\ connection_rows' = (connection_rows \ {conn}) \cup
                                             { [conn EXCEPT !.status = "accepted"] }
                    /\ conversation_rows' = conversation_rows \cup
                          { [id |-> id, user_a |-> conn.requester_id,
                             user_b |-> conn.target_id] }
                    /\ opened' = opened \cup
                          { [connection_id |-> conn.id, conversation_id |-> id] }
                    /\ resp' = ConnectResp("accept", 200, id, "accepted")
    /\ UNCHANGED <<engineTables, authVars, onbVars>>

\* POST /v1/connect/reject
reject_connection(connection_id, rejecter_id) ==
    LET found == ConnectionById(connection_id) IN
    /\ IF found = {}
       THEN /\ resp' = ConnectResp("reject", 400, 0, "not_found")
            /\ UNCHANGED connection_rows
       ELSE LET conn == CHOOSE c \in found : TRUE IN
            IF rejecter_id \notin {conn.requester_id, conn.target_id}
            THEN /\ resp' = ConnectResp("reject", 400, 0, "not_authorized")
                 /\ UNCHANGED connection_rows
            ELSE /\ connection_rows' = (connection_rows \ {conn}) \cup
                                          { [conn EXCEPT !.status = "rejected"] }
                 /\ resp' = ConnectResp("reject", 200, conn.id, "rejected")
    /\ UNCHANGED <<engineTables, authVars, onbVars, conversation_rows, opened>>

\* The state of the modules outside the reveal engine at process start.
InitOutside ==
    /\ _JWKS_CACHE = EmptyCache
    /\ issuer = 1
    /\ auth = [p \in AuthProcs |-> IdleAuth]
    /\ last_fetched = NoJwks
    /\ onboarding_state = [u \in OnbUsers |-> NoState]
    /\ profiles = [u \in OnbUsers |-> NoProfile]
    /\ media_items = [u \in OnbUsers |-> <<>>]
    /\ connection_rows = {}
    /\ conversation_rows = {}
    /\ opened = {}

\* The clock moves on by delta seconds.
Tick(delta) ==
    /\ now' = now + delta
    /\ UNCHANGED <<outsideVars, connections, messages, workers, passes, schema, cycle, decisions, blocklist, resp, tx, presence, shown>>

Init ==
    /\ now = 0
    /\ cycle = {}
    /\ decisions = {}
    /\ blocklist = {}
    /\ resp = NoResp
    /\ tx = [p \in Procs |-> IdleTx]
    /\ presence = [u \in Users |-> NoPresence]
    /\ shown = {}
    /\ schema = DeclaredSchema
    /\ connections = [c \in PushConvs |-> NoConnection]
    /\ messages = [c \in PushConvs |-> {}]
    /\ workers = [p \in PushProcs |-> IdleWorker]
    /\ passes = [c \in PushConvs |-> 0]
    /\ InitOutside

\* The requests a run sends: a participant of a conversation decides on its
\* counterpart, or names itself as the counterpart.
DecisionRequests ==
    { q \in [user_id : Deciders, other_user_id : Users, cid : ConvIds, decision : Decisions] :
        /\ q.user_id \in ConvPairs[q.cid]
        /\ q.other_user_id \in ConvPairs[q.cid] }

Decide ==
    \E q \in DecisionRequests :
        /\ q.other_user_id # q.user_id
        /\ reveal_decision_v2(q.user_id, q.other_user_id, q.cid, q.decision)
        /\ Cardinality(cycle') <= MaxCycleRows

DecideOnSelf ==
    \E q \in DecisionRequests :
        /\ q.other_user_id = q.user_id
        /\ reveal_decision_v2(q.user_id, q.other_user_id, q.cid, q.decision)

NextDay ==
    /\ day_key(now + DaySeconds) \in DayKeys
    /\ Tick(DaySeconds)

Next == Decide \/ DecideOnSelf \/ NextDay

Spec == Init /\ [][Next]_vars

\* Two workers serve decisions of the participants of TxConvIds concurrently.
TxRequests ==
    { q \in DecisionRequests : q.cid \in TxConvIds /\ q.other_user_id # q.user_id }

NextTx ==
    \E p \in Procs :
        \/ \E q \in TxRequests : TxBegin(p, q)
        \/ TxSelectExisting(p)
        \/ TxAssignSlot(p)
        \/ TxStoreDecision(p)
        \/ TxSelectOther(p)
        \/ TxInsertBlock(p)
        \/ TxCommit(p)
        \/ TxClose(p)

SpecTx == Init /\ [][NextTx]_vars

\* ------------------------------------------------------------------------
\* _ensure_daily_slot statement by statement, against each schema the cycle
\* table may have.  The select of the used slots and the insert are two
\* statements; the insert is a plain insert (no ON CONFLICT, no retry).
\* With a unique index, an insert of a key that another open transaction
\* has inserted waits for that transaction to end, and an insert of a key
\* that is committed raises IntegrityError, which the handler does not catch
\* (HTTP 500; the session is closed without commit).
\* ------------------------------------------------------------------------
\* Lines 91-103: select the used slots and pick the first free one, or 429.
TxSelectUsed(p) ==
    /\ tx[p].pc = "assign"
    /\ LET q  == tx[p].req
           es == AssignSlot(ViewCycle(p), q.user_id, q.other_user_id, q.cid, day_key(now))
       IN  tx' = [tx EXCEPT ![p] =
                    IF es.ok
                    THEN [@ EXCEPT !.pc = "insert", !.slot = es.slot]
                    ELSE [@ EXCEPT !.pc = "done",
                                   !.resp = DecisionResp(429, "error", "cycle_full", 0,
                                                         day_key(now))]]
    /\ UNCHANGED <<outsideVars, connections, messages, workers, passes, schema, now, cycle, decisions, blocklist, resp, presence, shown>>

\* Rows r and e collide on a unique index of the cycle table.
KeyConflict(r, e) ==
    /\ e.viewer_id = r.viewer_id
    /\ e.day_key = r.day_key
    /\ \/ schema.slot_unique /\ e.slot = r.slot
       \/ schema.target_unique /\ e.target_id = r.target_id

\* Lines 104-118: the insert at the slot picked.
TxInsertSlot(p) ==
    /\ tx[p].pc = "insert"
    /\ LET q == tx[p].req
           r == [viewer_id |-> q.user_id, day_key |-> day_key(now), slot |-> tx[p].slot,
                 target_id |-> q.other_user_id, conversation_id |-> q.cid]
       IN  /\ \A o \in Procs \ {p} :
                  ~(InFlight(o) /\ \E e \in tx[o].w_cycle : KeyConflict(r, e))
           /\ tx' = [tx EXCEPT ![p] =
                       IF \E e \in cycle : KeyConflict(r, e)
                       THEN [@ EXCEPT !.pc = "done",
                                      !.resp = DecisionResp(500, "error", "integrity_error",
                                                            0, day_key(now))]
                       ELSE [@ EXCEPT !.pc = "store", !.w_cycle = {r}]]
    /\ UNCHANGED <<outsideVars, connections, messages, workers, passes, schema, now, cycle, decisions, blocklist, resp, presence, shown>>

InitSlots ==
    /\ now = 0
    /\ cycle = {}
    /\ decisions = {}
    /\ blocklist = {}
    /\ resp = NoResp
    /\ tx = [p \in Procs |-> IdleTx]
    /\ presence = [u \in Users |-> NoPresence]
    /\ shown = {}
    /\ schema \in Schemas
    /\ connections = [c \in PushConvs |-> NoConnection]
    /\ messages = [c \in PushConvs |-> {}]
    /\ workers = [p \in PushProcs |-> IdleWorker]
    /\ passes = [c \in PushConvs |-> 0]
    /\ InitOutside

\* One viewer, U2, sends decisions on U10 and on U1 to two workers.
SlotRequests == { q \in TxRequests : q.user_id = U2 }

NextSlots ==
    \E p \in Procs :
        \/ \E q \in SlotRequests : TxBegin(p, q)
        \/ TxSelectExisting(p)
        \/ TxSelectUsed(p)
        \/ TxInsertSlot(p)
        \/ TxStoreDecision(p)
        \/ TxSelectOther(p)
        \/ TxInsertBlock(p)
        \/ TxCommit(p)
        \/ TxClose(p)

SpecSlots == InitSlots /\ [][NextSlots]_vars

\* One viewer, U2, sends decisions on its four counterparts to two workers
\* within one day: meet on U10, U1 and U3, pass on U4.
QuotaRequests ==
    { q \in DecisionRequests :
        /\ q.user_id = U2 /\ q.other_user_id # q.user_id
        /\ q.decision = (IF q.cid = "c4" THEN "pass" ELSE "meet") }

NextQuota ==
    \E p \in Procs :
        \/ \E q \in QuotaRequests : TxBegin(p, q)
        \/ TxSelectExisting(p)
        \/ TxSelectUsed(p)
        \/ TxInsertSlot(p)
        \/ TxStoreDecision(p)
        \/ TxSelectOther(p)
        \/ TxInsertBlock(p)
        \/ TxCommit(p)
        \/ TxClose(p)

SpecQuota == Init /\ [][NextQuota]_vars

\* The viewer U2 asks for users within 150 m of grid point 0 while the other
\* users send heartbeats (stationary, the request default) from the grid
\* points of NearbyLngs, 100 m and 200 m away, and the clock moves on in steps
\* of the activation threshold; U2 also decides on U10.
Viewer == U2
NearbyLngs == {1, 2}
NearbyRadius == {150}
MaxTicks == 1

Heartbeat ==
    \E u \in Users \ {Viewer} : \E lng \in NearbyLngs :
        presence_heartbeat(u, 0, lng, TRUE, "null")

Nearby ==
    \E r \in NearbyRadius : presence_nearby(Viewer, 0, 0, r)

ViewerDecides ==
    \E d \in Decisions : reveal_decision_v2(Viewer, U10, "c1", d)

ThresholdTick ==
    /\ now + STATIONARY_THRESHOLD_SECONDS <= MaxTicks * STATIONARY_THRESHOLD_SECONDS
    /\ Tick(STATIONARY_THRESHOLD_SECONDS)

NextNearby == Heartbeat \/ Nearby \/ ViewerDecides \/ ThresholdTick

SpecNearby == Init /\ [][NextNearby]_vars

\* The viewer decides on any of its four counterparts, so that its cycle fills
\* up, and U10 may pass on the viewer, which blocks the pair without giving
\* U10 a slot in the viewer's cycle.  U1 and U10 check in (stationary) at the
\* start and stay; U3 and U4 never do.  The viewer asks for users within 150 m
\* or 250 m.
CycleRadius == {150, 250}
CycleUsers == {U1, U10}

CheckIn ==
    /\ now = 0
    /\ \E u \in CycleUsers : \E lng \in NearbyLngs :
          presence_heartbeat(u, 0, lng, TRUE, "null")

ViewerDecidesAny ==
    \E cid \in ConvIds : \E d \in Decisions : \E o \in ConvPairs[cid] \ {Viewer} :
        reveal_decision_v2(Viewer, o, cid, d)

CounterpartPasses ==
    reveal_decision_v2(U10, Viewer, "c1", "pass")

NearbyCycle ==
    \E r \in CycleRadius : presence_nearby(Viewer, 0, 0, r)

NextCycle ==
    CheckIn \/ NearbyCycle \/ ViewerDecidesAny \/ CounterpartPasses \/ ThresholdTick

SpecCycle == Init /\ [][NextCycle]_vars

\* U1, U10 and the viewer itself send heartbeats, stationary or moving, from
\* the grid points of NearbyLngs; the viewer asks for users within 150 m of
\* grid point 0; the clock moves on in steps of the activation threshold.
\* Nobody decides, so the cycle and the blocklist stay empty.
DwellUsers == {U1, U10, Viewer}

HeartbeatDwell ==
    \E u \in DwellUsers : \E lng \in NearbyLngs : \E st \in BOOLEAN :
        presence_heartbeat(u, 0, lng, st, "null")

NextDwell == HeartbeatDwell \/ Nearby \/ ThresholdTick

SpecDwell == Init /\ [][NextDwell]_vars

\* U1 and U10 send stationary heartbeats from the grid points of NearbyLngs,
\* the viewer decides on U10 (which gives U10 a slot of the viewer's day) and
\* asks for users within 150 m; the clock moves on by the activation
\* threshold and by the expiry window.
MaxExpiryTicks == 1
ExpiryUsers == {U1, U10}

HeartbeatExpiry ==
    \E u \in ExpiryUsers : \E lng \in NearbyLngs :
        presence_heartbeat(u, 0, lng, TRUE, "null")

ExpiryTick ==
    /\ now + PRESENCE_EXPIRY_MINUTES * 60
          <= MaxExpiryTicks * PRESENCE_EXPIRY_MINUTES * 60
               + MaxTicks * STATIONARY_THRESHOLD_SECONDS
    /\ Tick(PRESENCE_EXPIRY_MINUTES * 60)

NextExpiry == HeartbeatExpiry \/ Nearby \/ ViewerDecides \/ ThresholdTick \/ ExpiryTick

SpecExpiry == Init /\ [][NextExpiry]_vars

\* Messages of the two participants of a conversation arrive in Supabase and
\* their webhooks are served, two at a time; the profile is asked for; the
\* participants send three-strikes decisions, two at a time; the clock moves
\* on in steps of the settle delay.  At the start the conversation has no row
\* in public.connections, or a pending one without reveal.
MaxSettleTicks == 2
MaxPasses == 3

InitPush ==
    /\ now = 0
    /\ cycle = {}
    /\ decisions = {}
    /\ blocklist = {}
    /\ resp = NoResp
    /\ tx = [p \in Procs |-> IdleTx]
    /\ presence = [u \in Users |-> NoPresence]
    /\ shown = {}
    /\ schema = DeclaredSchema
    /\ connections \in [PushConvs -> {NoConnection, PendingConnection(U10, U2)}]
    /\ messages = [c \in PushConvs |-> {}]
    /\ workers = [p \in PushProcs |-> IdleWorker]
    /\ passes = [c \in PushConvs |-> 0]
    /\ InitOutside

SettleTick ==
    /\ now + SETTLE_DELAY_SECONDS <= MaxSettleTicks * SETTLE_DELAY_SECONDS
    /\ Tick(SETTLE_DELAY_SECONDS)

MessageArrives ==
    \E c \in PushConvs : \E s \in ConvPairs[c] : SendMessage(c, s)

Webhook ==
    \E p \in PushProcs :
        \/ \E c \in PushConvs : \E s \in ConvPairs[c] : WebhookBegin(p, c, s)
        \/ IsRevealedReturn(p)
        \/ GetDistinctSenders(p)
        \/ SettleDone(p)
        \/ MarkCommit(p)
        \/ WebhookEnd(p)

Profile ==
    \E c \in PushConvs : \E o \in ConvPairs[c] : \E has_media \in BOOLEAN :
        get_revealed_profile(c, o, has_media)

Strike ==
    \E p \in PushProcs :
        \/ \E c \in PushConvs : \E d \in Decisions :
              /\ passes[c] < MaxPasses
              /\ StrikeBegin(p, c, d)
        \/ StrikeUpdate(p)
        \/ StrikeCommit(p)

NextPush == MessageArrives \/ Webhook \/ Profile \/ Strike \/ SettleTick

SpecPush == InitPush /\ [][NextPush]_vars

\* Users send heartbeats, stationary or moving, from the grid points of
\* NearbyLngs while the clock moves on.
PresenceUsers == {U1, U10, U3}

HeartbeatAny ==
    \E u \in PresenceUsers : \E lng \in NearbyLngs : \E st \in BOOLEAN :
        presence_heartbeat(u, 0, lng, st, "null")

NextPresence == HeartbeatAny \/ ThresholdTick

SpecPresence == Init /\ [][NextPresence]_vars

\* ========================================================================
\* Properties
\* ========================================================================
Low(S) == CHOOSE s \in S : \A t \in S : s <= t

UsedSlots(cy, viewer_id, today) == { r.slot : r \in CycleRows(cy, viewer_id, today) }

\* The decision request q is served by this step.
Served(q) == reveal_decision_v2(q.user_id, q.other_user_id, q.cid, q.decision)

\* The pair has an entry in the blocklist table, in either order.
PairEntries(bl, a, b) == { r \in bl : {r.user_low, r.user_high} = {a, b} }

\* C1: for every viewer and day the cycle holds at most three rows, rows are
\* never removed, and every row a step creates takes the lowest slot number
\* of {1,2,3} that the viewer had not used that day.
C1_CapAndLowestSlot ==
    [][ /\ cycle \subseteq cycle'
        /\ \A v \in Users : \A k \in DayKeys :
               Cardinality(CycleRows(cycle', v, k)) <= 3
        /\ \A r \in cycle' \ cycle :
               /\ r.slot \in Slots \ UsedSlots(cycle, r.viewer_id, r.day_key)
               /\ r.slot = Low(Slots \ UsedSlots(cycle, r.viewer_id, r.day_key)) ]_vars

\* A viewer holds slots 1, 2 and 3 today and a decision on a fourth target
\* has just been refused.
C1_Witness ==
    /\ UsedSlots(cycle, U2, day_key(now)) = Slots
    /\ resp.op = "decision" /\ resp.http = 429

\* The status the specification's outcome table gives.
SpecTable(d, other) ==
    IF d = "pass" THEN "search_next"
    ELSE IF other = "none" THEN "waiting"
    ELSE IF other = "pass" THEN "search_next"
    ELSE "matched"

\* The same table with the status the endpoint names for meet/meet.
CodeTable(d, other) ==
    IF d = "pass" THEN "search_next"
    ELSE IF other = "none" THEN "waiting"
    ELSE IF other = "pass" THEN "search_next"
    ELSE "meeting"

\* Worker p has answered a decision that passed validation, the block check
\* and slot resolution.
AnsweredAccepted(p) ==
    /\ tx[p].pc = "done"
    /\ tx[p].resp.http = 200
    /\ tx[p].resp.ai_message # "already_handled"

\* C3 as claimed: an accepted decision is answered with the status the table
\* gives for (my decision, the counterpart's decision as read from the store),
\* meet/meet giving matched; the status is one of waiting, matched, search_next.
C3_TableWithMatched ==
    \A p \in Procs : AnsweredAccepted(p) =>
        /\ tx[p].resp.status = SpecTable(tx[p].req.decision, tx[p].other)
        /\ tx[p].resp.status \in {"waiting", "matched", "search_next"}

\* C3 amended: the same table with meet/meet answered "meeting"; the status
\* is one of waiting, meeting, search_next.
C3_TableWithMeeting ==
    \A p \in Procs : AnsweredAccepted(p) =>
        /\ tx[p].resp.status = CodeTable(tx[p].req.decision, tx[p].other)
        /\ tx[p].resp.status \in {"waiting", "meeting", "search_next"}

\* All four rows of the table have been answered: one worker answered
\* meet/pass (the counterpart's pass was committed after the block check),
\* the other answered a pass.
C3_Witness ==
    \E p \in Procs : \E o \in Procs \ {p} :
        /\ AnsweredAccepted(p) /\ AnsweredAccepted(o)
        /\ tx[p].req.decision = "meet" /\ tx[p].other = "pass"
        /\ tx[p].resp.status = "search_next"
        /\ tx[o].req.decision = "pass" /\ tx[o].resp.status = "search_next"

\* C4 as claimed: whenever a participant submits pass the pair is blocked when
\* the call returns, and a blocked pair stays blocked.
C4_PassAlwaysBlocks ==
    [][ /\ \A q \in DecisionRequests :
              (q.other_user_id # q.user_id /\ q.decision = "pass" /\ Served(q))
                  => _is_blocked(blocklist', q.user_id, q.other_user_id)
        /\ \A a \in Users : \A b \in Users :
              _is_blocked(blocklist, a, b) => _is_blocked(blocklist', a, b) ]_vars

\* C4 amended: whenever a participant submits pass and the call is not refused
\* with the cycle-full error (429), the pair is blocked when the call returns,
\* whatever the counterpart decided; a blocked pair stays blocked.
C4_AcceptedPassBlocks ==
    [][ /\ \A q \in DecisionRequests :
              (q.other_user_id # q.user_id /\ q.decision = "pass" /\ Served(q)
                 /\ resp'.http # 429)
                  => /\ _is_blocked(blocklist', q.user_id, q.other_user_id)
                     /\ _is_blocked(blocklist', q.other_user_id, q.user_id)
        /\ \A a \in Users : \A b \in Users :
              _is_blocked(blocklist, a, b) => _is_blocked(blocklist', a, b) ]_vars

\* U2 has met, U10 has passed afterwards and was answered search_next; the
\* pair is blocked.
C4_Witness ==
    /\ OtherDecision(decisions, "c1", U2) = "meet"
    /\ OtherDecision(decisions, "c1", U10) = "pass"
    /\ resp.op = "decision" /\ resp.ai_message = "not_your_vibe"
    /\ _is_blocked(blocklist, U2, U10)

\* Conversation states of 4.5.
Matched(ds, cid) ==
    \A u \in ConvPairs[cid] : OtherDecision(ds, cid, u) = "meet"
Rejected(ds, cid) ==
    \E u \in ConvPairs[cid] : OtherDecision(ds, cid, u) = "pass"

\* C6: Matched and Rejected are terminal: no step takes a conversation out of
\* either, and the pair of a Matched conversation does not become blocked.
C6_TerminalStates ==
    [][ \A cid \in ConvIds :
          /\ Matched(decisions, cid) => Matched(decisions', cid)
          /\ Rejected(decisions, cid) => Rejected(decisions', cid)
          /\ (Matched(decisions, cid) /\ \A a \in ConvPairs[cid] : \A b \in ConvPairs[cid] :
                                             ~_is_blocked(blocklist, a, b))
                => \A a \in ConvPairs[cid] : \A b \in ConvPairs[cid] :
                       ~_is_blocked(blocklist', a, b) ]_vars

\* C7: a decision on a pair that is already blocked is answered search_next
\* and leaves the three tables as they were.
C7_BlockedShortCircuit ==
    [][ \A q \in DecisionRequests :
          (/\ q.other_user_id # q.user_id
           /\ PairEntries(blocklist, q.user_id, q.other_user_id) # {}
           /\ Served(q))
          => /\ resp'.http = 200 /\ resp'.status = "search_next"
             /\ cycle' = cycle /\ decisions' = decisions /\ blocklist' = blocklist ]_vars

\* A blocked pair whose later decision has been answered "already handled".
C7_Witness ==
    /\ PairEntries(blocklist, U2, U10) # {}
    /\ resp.op = "decision" /\ resp.ai_message = "already_handled"
    /\ OtherDecision(decisions, "c1", U10) = "none"

\* C9: the three blocklist lookups do not depend on the order of their
\* arguments, and after block(a, b) they answer true in both orders.
C9_OrderIndependentLookup ==
    \A a \in Users : \A b \in Users \ {a} :
        /\ _is_blocked(blocklist, a, b) = _is_blocked(blocklist, b, a)
        /\ _is_blocked_pair(blocklist, a, b) = _is_blocked_pair(blocklist, b, a)
        /\ is_blocked_pair(blocklist, a, b) = is_blocked_pair(blocklist, b, a)
        /\ _is_blocked_pair(blocklist, a, b) = _is_blocked(blocklist, a, b)
        /\ PairEntries(blocklist, a, b) # {} => _is_blocked(blocklist, a, b)
        /\ LET bl == _insert_block(blocklist, a, b, "passed", "c1")
           IN  /\ _is_blocked(bl, a, b) /\ _is_blocked(bl, b, a)
               /\ _is_blocked_pair(bl, a, b) /\ _is_blocked_pair(bl, b, a)
        /\ LET bl == upsert_block_pair(blocklist, a, b, "passed", "c1")
           IN  is_blocked_pair(bl, a, b) /\ is_blocked_pair(bl, b, a)

\* The pair (U1, U2) was blocked by a pass of U2, the higher id, and is found
\* in both orders.
C9_Witness ==
    /\ OtherDecision(decisions, "c2", U2) = "pass"
    /\ _is_blocked(blocklist, U1, U2) /\ _is_blocked_pair(blocklist, U2, U1)

\* C10: ensure_slot twice in sequence with the same viewer, day and target
\* gives the same slot both times, and the second call leaves the table as
\* the first left it.
C10_EnsureSlotIdempotent ==
    \A v \in Users : \A t \in Users \ {v} : \A cid \in ConvIds : \A k \in DayKeys :
        /\ LET first  == _ensure_daily_slot(cycle, v, t, cid, k)
               second == _ensure_daily_slot(first.cycle, v, t, cid, k)
           IN  first.ok => (second.ok /\ second.slot = first.slot
                              /\ second.cycle = first.cycle)
        /\ LET first  == ensure_cycle_slot(cycle, v, k, t, cid)
               second == ensure_cycle_slot(first.cycle, v, k, t, cid)
           IN  first.ok => (second.ok /\ second.slot = first.slot
                              /\ second.cycle = first.cycle)

\* U2's cycle is full today and U10 holds one of its slots: ensure_slot on
\* U10 finds the row instead of refusing.
C10_Witness ==
    /\ UsedSlots(cycle, U2, day_key(now)) = Slots
    /\ \E r \in CycleRows(cycle, U2, day_key(now)) : r.target_id = U10
    /\ _ensure_daily_slot(cycle, U2, U10, "c1", day_key(now)).ok

\* C5: two overlapping meet decisions of the two participants of one
\* conversation are never both answered waiting with both meets stored.
C5_OverlappingMeetsResolve ==
    \A p \in Procs : \A o \in Procs \ {p} :
        ~(/\ tx[p].pc = "done" /\ tx[o].pc = "done"
          /\ tx[p].req.cid = tx[o].req.cid
          /\ tx[p].req.user_id = tx[o].req.other_user_id
          /\ tx[o].req.user_id = tx[p].req.other_user_id
          /\ tx[p].req.decision = "meet" /\ tx[o].req.decision = "meet"
          /\ tx[p].resp.status = "waiting" /\ tx[o].resp.status = "waiting"
          /\ Matched(decisions, tx[p].req.cid))

\* C8: the blocklist holds at most one entry per unordered pair of users,
\* also when both participants block each other concurrently, and a pair that
\* is blocked stays blocked.
C8_OneEntryPerPairForever ==
    [][ /\ \A r \in blocklist' : \A e \in blocklist' :
              {r.user_low, r.user_high} = {e.user_low, e.user_high} => r = e
        /\ \A r \in blocklist : \E e \in blocklist' :
              e.user_low = r.user_low /\ e.user_high = r.user_high
        /\ \A a \in Users : \A b \in Users :
              _is_blocked(blocklist, a, b) => _is_blocked(blocklist', a, b) ]_vars

\* Both participants of c1 passed in overlapping calls, both blocks were
\* committed, and the pair has one entry.
C8_Witness ==
    /\ OtherDecision(decisions, "c1", U2) = "pass"
    /\ OtherDecision(decisions, "c1", U10) = "pass"
    /\ \A p \in Procs : tx[p].pc = "done" /\ tx[p].resp.ai_message = "not_your_vibe"
    /\ Cardinality(PairEntries(blocklist, U2, U10)) = 1
    /\ Cardinality(PairEntries(blocklist, U10, U2)) = 1

\* C2: over the nearby calls of one viewer within one calendar day, at most
\* three distinct users are ever returned to that viewer.
C2_AtMostThreeShownPerDay ==
    \A v \in Users : \A k \in DayKeys :
        Cardinality({ e.user_id : e \in { x \in shown : x.viewer_id = v /\ x.day_key = k } }) <= 3

\* The decision of worker p got past validation, the block check and the
\* cycle-full check, and p has answered.
SlotRequested(p) ==
    /\ tx[p].pc = "done"
    /\ tx[p].resp.http \notin {400, 429}
    /\ tx[p].resp.ai_message # "already_handled"

\* C11: there is at most one cycle row per (viewer, day, slot), and two
\* ensure_slot calls of one viewer for two different targets leave the two
\* targets in two different slots, however the calls interleave.
C11_ConcurrentSlotsDistinct ==
    /\ \A r \in cycle : \A e \in cycle :
          (r.viewer_id = e.viewer_id /\ r.day_key = e.day_key /\ r.slot = e.slot) => r = e
    /\ \A p \in Procs : \A o \in Procs \ {p} :
          (/\ SlotRequested(p) /\ SlotRequested(o)
           /\ tx[p].req.user_id = tx[o].req.user_id
           /\ tx[p].req.other_user_id # tx[o].req.other_user_id)
          => \E r \in cycle : \E e \in cycle :
                /\ r.viewer_id = tx[p].req.user_id /\ r.target_id = tx[p].req.other_user_id
                /\ e.viewer_id = tx[o].req.user_id /\ e.target_id = tx[o].req.other_user_id
                /\ r.day_key = day_key(now) /\ e.day_key = day_key(now)
                /\ r.slot # e.slot

\* C12: there is at most one cycle row per (viewer, day, target), also when
\* one viewer's decisions on the same target overlap.
C12_OneSlotPerTarget ==
    \A r \in cycle : \A e \in cycle :
        (r.viewer_id = e.viewer_id /\ r.day_key = e.day_key /\ r.target_id = e.target_id)
            => r = e

\* The users of a nearby answer who hold no slot of the viewer's day.
FreshIn(users, viewer_id, today) ==
    { users[i].user_id : i \in DOMAIN users } \
        SeqRange(_today_cycle_targets(cycle, viewer_id, today))

\* C13: when nearby returns a candidate that held no slot, a cycle row for
\* (viewer, today, candidate) exists when the call returns.
C13_FreshShownIsSlotted ==
    [][ Nearby =>
          \A c \in FreshIn(resp'.users, Viewer, day_key(now)) :
              \E r \in CycleRows(cycle', Viewer, day_key(now)) :
                  r.target_id = c /\ r.slot \in Slots ]_vars

\* C15: with fewer than three cycle rows today, nearby returns at most
\* 3 - (number of the viewer's cycle rows today) fresh candidates.
C15_FreshWithinFreeSlots ==
    [][ (Nearby /\ Cardinality(CycleRows(cycle, Viewer, day_key(now))) < 3) =>
          Cardinality(FreshIn(resp'.users, Viewer, day_key(now)))
              <= 3 - Cardinality(CycleRows(cycle, Viewer, day_key(now))) ]_vars

\* C20: after every step a presence row has activated_at set only if it is
\* stationary; a heartbeat that creates the row stationary, or takes it from
\* moving to stationary, sets activated_at to the time of the heartbeat; a
\* stationary heartbeat on a stationary row keeps activated_at; a heartbeat
\* with is_stationary false clears it.
C20_ActivationFollowsStationarity ==
    [][ /\ \A u \in Users :
              (presence'[u].present /\ presence'[u].activated_at # Null)
                  => presence'[u].is_stationary
        /\ \A u \in PresenceUsers : \A lng \in NearbyLngs : \A st \in BOOLEAN :
              presence_heartbeat(u, 0, lng, st, "null") =>
                 /\ presence'[u].present /\ presence'[u].is_stationary = st
                 /\ presence'[u].last_seen_at = now
                 /\ ~st => presence'[u].activated_at = Null
                 /\ (st /\ (~presence[u].present \/ ~presence[u].is_stationary))
                       => presence'[u].activated_at = now
                 /\ (st /\ presence[u].present /\ presence[u].is_stationary)
                       => presence'[u].activated_at = presence[u].activated_at ]_vars

\* U1 was stationary since time 0, then reported moving at a later time: its
\* activation is cleared; U10 repeated a stationary heartbeat later and keeps
\* the activation time of its first one.
C20_Witness ==
    /\ presence[U1].present /\ ~presence[U1].is_stationary
    /\ presence[U1].activated_at = Null /\ presence[U1].last_seen_at > 0
    /\ presence[U10].present /\ presence[U10].is_stationary
    /\ presence[U10].activated_at = 0 /\ presence[U10].last_seen_at > 0

\* The three tables are left as they were.
TablesUnchanged ==
    cycle' = cycle /\ decisions' = decisions /\ blocklist' = blocklist

FullForOthers(viewer_id, target_id) ==
    /\ UsedSlots(cycle, viewer_id, day_key(now)) = Slots
    /\ \A r \in CycleRows(cycle, viewer_id, day_key(now)) : r.target_id # target_id

\* C18 as claimed: a decision of a viewer whose three slots are held by other
\* targets fails with 429 and leaves the tables as they were; a decision on a
\* target that holds a slot today succeeds.
C18_FullCycleRefuses ==
    [][ \A q \in DecisionRequests :
          (q.other_user_id # q.user_id /\ Served(q)) =>
             /\ FullForOthers(q.user_id, q.other_user_id)
                   => (resp'.http = 429 /\ TablesUnchanged)
             /\ (\E r \in CycleRows(cycle, q.user_id, day_key(now)) :
                     r.target_id = q.other_user_id)
                   => resp'.http = 200 ]_vars

\* C18 amended: the same for a pair that is not blocked; on a blocked pair the
\* call is answered search_next (200), the tables left as they were.
C18_FullCycleRefusesUnblocked ==
    [][ \A q \in DecisionRequests :
          (q.other_user_id # q.user_id /\ Served(q)) =>
             /\ (FullForOthers(q.user_id, q.other_user_id)
                   /\ ~_is_blocked(blocklist, q.user_id, q.other_user_id))
                   => (resp'.http = 429 /\ TablesUnchanged)
             /\ (FullForOthers(q.user_id, q.other_user_id)
                   /\ _is_blocked(blocklist, q.user_id, q.other_user_id))
                   => (resp'.http = 200 /\ resp'.status = "search_next" /\ TablesUnchanged)
             /\ (\E r \in CycleRows(cycle, q.user_id, day_key(now)) :
                     r.target_id = q.other_user_id)
                   => (resp'.http = 200
                       /\ \E r \in CycleRows(cycle, q.user_id, day_key(now)) :
                             r.target_id = q.other_user_id /\ 
                             (~_is_blocked(blocklist, q.user_id, q.other_user_id)
                                 => resp'.slot = r.slot)) ]_vars

\* U2 holds three slots with U10, U1 and U3, and its decision on U4 has been
\* refused: nothing is stored for conversation c4.
C18_Witness ==
    /\ { r.target_id : r \in CycleRows(cycle, U2, day_key(now)) } = {U10, U1, U3}
    /\ resp.op = "decision" /\ resp.http = 429
    /\ \A r \in decisions : r.conversation_id # "c4"
    /\ ~_is_blocked(blocklist, U2, U4)

\* At most one decision row per (conversation_id, user_id).
OneRowPerKey(ds) ==
    \A r \in ds : \A e \in ds :
        (r.conversation_id = e.conversation_id /\ r.user_id = e.user_id) => r = e

\* The rows of ds that are not the row of (cid, uid).
RowsOfOthers(ds, cid, uid) ==
    { r \in ds : ~(r.conversation_id = cid /\ r.user_id = uid) }

\* C19 as claimed: one decision row per (conversation, user); after a user
\* resubmits, the stored decision is the one submitted last; a submission
\* never changes another row.
C19_LastWriteWins ==
    [][ /\ OneRowPerKey(decisions')
        /\ \A q \in DecisionRequests :
              (q.other_user_id # q.user_id /\ Served(q)) =>
                 /\ RowsOfOthers(decisions', q.cid, q.user_id)
                       = RowsOfOthers(decisions, q.cid, q.user_id)
                 /\ OtherDecision(decisions, q.cid, q.user_id) # "none"
                       => OtherDecision(decisions', q.cid, q.user_id) = q.decision ]_vars

\* C19 amended: the stored decision is the last one submitted in a call that
\* was accepted, i.e. neither short-circuited on a blocked pair nor refused
\* (400, 429); a call that was not accepted leaves the stored decision.
C19_LastAcceptedWriteWins ==
    [][ /\ OneRowPerKey(decisions')
        /\ \A q \in DecisionRequests :
              (q.other_user_id # q.user_id /\ Served(q)) =>
                 /\ RowsOfOthers(decisions', q.cid, q.user_id)
                       = RowsOfOthers(decisions, q.cid, q.user_id)
                 /\ (resp'.http = 200 /\ resp'.ai_message # "already_handled")
                       => OtherDecision(decisions', q.cid, q.user_id) = q.decision
                 /\ ~(resp'.http = 200 /\ resp'.ai_message # "already_handled")
                       => decisions' = decisions
                 /\ LET ds == record_decision(decisions, q.cid, q.user_id,
                                              q.other_user_id, q.decision)
                    IN  /\ OneRowPerKey(ds)
                        /\ OtherDecision(ds, q.cid, q.user_id) = q.decision
                        /\ RowsOfOthers(ds, q.cid, q.user_id)
                              = RowsOfOthers(decisions, q.cid, q.user_id) ]_vars

\* U2 decided on U10 on both days (it holds a slot for U10 on each), so its
\* first decision was a meet, and its stored decision is now the pass it
\* submitted on the second day; U10's row is still its meet.
C19_Witness ==
    /\ \A k \in DayKeys : \E r \in CycleRows(cycle, U2, k) : r.target_id = U10
    /\ OtherDecision(decisions, "c1", U2) = "pass"
    /\ OtherDecision(decisions, "c1", U10) = "meet"
    /\ resp.op = "decision" /\ resp.ai_message = "not_your_vibe"

\* The slot a target holds in the viewer's cycle of the day.
SlotOf(viewer_id, today, target_id) ==
    (CHOOSE r \in CycleRows(cycle, viewer_id, today) : r.target_id = target_id).slot

\* The users that are active and within radius_meters of the viewer.
InRadiusIds(viewer_id, radius_meters) ==
    { r.user_id : r \in InRadius(viewer_id, 0, 0, radius_meters) }

\* C14: when the viewer holds three cycle rows today, nearby returns only
\* users that hold one of the three slots and are in radius, each once, in
\* ascending slot order, and creates no cycle row.
C14_FullCycleShowsOnlySlotted ==
    [][ \A rad \in CycleRadius :
          (/\ resp'.op = "nearby"
           /\ Cardinality(CycleRows(cycle, Viewer, day_key(now))) = 3
           /\ presence_nearby(Viewer, 0, 0, rad))
          => LET users == resp'.users
                 today == day_key(now)
             IN  /\ \A i \in DOMAIN users :
                       /\ \E r \in CycleRows(cycle, Viewer, today) :
                             r.target_id = users[i].user_id
                       /\ users[i].user_id \in InRadiusIds(Viewer, rad)
                 /\ \A i \in DOMAIN users : \A j \in DOMAIN users :
                       i < j => SlotOf(Viewer, today, users[i].user_id)
                                   < SlotOf(Viewer, today, users[j].user_id)
                 /\ cycle' = cycle ]_vars

\* The viewer holds three slots, none for U10; U10 is active 100 m away and a
\* slotted user 200 m away; the last nearby answer holds the slotted user and
\* not U10.
C14_Witness ==
    /\ Cardinality(CycleRows(cycle, Viewer, day_key(now))) = 3
    /\ \A r \in CycleRows(cycle, Viewer, day_key(now)) : r.target_id # U10
    /\ U10 \in InRadiusIds(Viewer, 150)
    /\ ~_is_blocked(blocklist, Viewer, U10)
    /\ resp.op = "nearby"
    /\ \E i \in DOMAIN resp.users :
          resp.users[i].lng = 2 /\ resp.users[i].user_id \in InRadiusIds(Viewer, 250)
    /\ \A i \in DOMAIN resp.users : resp.users[i].user_id # U10

\* C16: every user nearby returns who holds no slot of the viewer's day is
\* not blocked with the viewer.
C16_FreshNeverBlocked ==
    [][ (resp'.op = "nearby" /\ NearbyCycle) =>
          \A c \in FreshIn(resp'.users, Viewer, day_key(now)) :
              PairEntries(blocklist, Viewer, c) = {} ]_vars

\* U10 passed on the viewer: the pair is blocked and U10 holds no slot of the
\* viewer, which has free slots; the viewer passed on U1, which holds a slot.
\* Both are active and in radius; the last nearby answer holds U1 and not U10.
C16_Witness ==
    /\ PairEntries(blocklist, Viewer, U10) # {}
    /\ \A r \in CycleRows(cycle, Viewer, day_key(now)) : r.target_id # U10
    /\ Cardinality(CycleRows(cycle, Viewer, day_key(now))) < 3
    /\ PairEntries(blocklist, Viewer, U1) # {}
    /\ {U1, U10} \subseteq InRadiusIds(Viewer, 150)
    /\ resp.op = "nearby"
    /\ \E i \in DOMAIN resp.users : resp.users[i].user_id = U1
    /\ \A i \in DOMAIN resp.users : resp.users[i].user_id # U10

\* C21: a stationary heartbeat on a row that is already stationary changes
\* only lat, lng, venue_type and last_seen_at of that row: activated_at,
\* is_stationary and discoverable stay, the rows of the other users stay, and
\* the time from which the user is eligible (activated_at plus the threshold)
\* is not later than before.
C21_RepeatedStationaryKeepsActivation ==
    [][ \A u \in PresenceUsers : \A lng \in NearbyLngs :
          (/\ presence[u].present /\ presence[u].is_stationary
           /\ presence_heartbeat(u, 0, lng, TRUE, "null"))
          => /\ presence'[u] = [presence[u] EXCEPT !.lat = 0, !.lng = lng,
                                                   !.venue_type = "null",
                                                   !.last_seen_at = now]
             /\ presence'[u].activated_at + STATIONARY_THRESHOLD_SECONDS
                   <= presence[u].activated_at + STATIONARY_THRESHOLD_SECONDS
             /\ \A w \in Users \ {u} : presence'[w] = presence[w] ]_vars

\* U3 became stationary at time 0 at grid point 1 and repeated the stationary
\* heartbeat from grid point 2 one threshold later: it is eligible from time
\* 15 on, as after its first heartbeat.
C21_Witness ==
    /\ presence[U3].present /\ presence[U3].is_stationary
    /\ presence[U3].lng = 2
    /\ presence[U3].activated_at = 0
    /\ presence[U3].last_seen_at = STATIONARY_THRESHOLD_SECONDS
    /\ presence[U3].activated_at + STATIONARY_THRESHOLD_SECONDS <= now

\* C22: every user a nearby call at time now returns has activated_at set and
\* at most now minus the threshold; a stationary heartbeat on a row that was
\* moving sets activated_at to the time of that heartbeat, so that the user
\* is not a candidate at that time, however long ago and however often it was
\* stationary before.
C22_DwellBeforeShown ==
    [][ /\ (resp'.op = "nearby" /\ Nearby) =>
              \A i \in DOMAIN resp'.users :
                 LET row == presence[resp'.users[i].user_id]
                 IN  /\ row.present /\ row.is_stationary
                     /\ row.activated_at # Null
                     /\ row.activated_at <= now - STATIONARY_THRESHOLD_SECONDS
        /\ \A u \in DwellUsers \ {Viewer} : \A lng \in NearbyLngs :
              (/\ presence[u].present /\ ~presence[u].is_stationary
               /\ presence_heartbeat(u, 0, lng, TRUE, "null"))
              => /\ presence'[u].activated_at = now
                 /\ \A rad \in NearbyRadius :
                       u \notin { r.user_id : r \in InRadius(Viewer, 0, 0, rad)' } ]_vars

\* At time 15 U1, stationary 100 m away since time 0, is in the answer; U10,
\* also 100 m away and seen at time 15, is stationary only since time 15 and
\* is not in the answer.
C22_Witness ==
    /\ now = STATIONARY_THRESHOLD_SECONDS
    /\ presence[U1].present /\ presence[U1].lng = 1 /\ presence[U1].activated_at = 0
    /\ presence[U10].present /\ presence[U10].lng = 1 /\ presence[U10].is_stationary
    /\ presence[U10].activated_at = now
    /\ resp.op = "nearby"
    /\ \E i \in DOMAIN resp.users : resp.users[i].user_id = U1
    /\ \A i \in DOMAIN resp.users : resp.users[i].user_id # U10

\* C24: with no cycle row and no block, the users a nearby call returns are
\* exactly the users other than the viewer whose row is discoverable and
\* stationary, has activated_at set and at most now minus the threshold and
\* last_seen_at at least now minus the expiry window, and lies within the
\* radius of the point asked for; the viewer is not among them.
C24_CandidateSetExact ==
    [][ \A rad \in NearbyRadius :
          (resp'.op = "nearby" /\ presence_nearby(Viewer, 0, 0, rad)) =>
             /\ { resp'.users[i].user_id : i \in DOMAIN resp'.users }
                  = { u \in Users \ {Viewer} :
                        /\ presence[u].present
                        /\ presence[u].discoverable
                        /\ presence[u].is_stationary
                        /\ presence[u].activated_at # Null
                        /\ presence[u].activated_at + STATIONARY_THRESHOLD_SECONDS <= now
                        /\ presence[u].last_seen_at + PRESENCE_EXPIRY_MINUTES * 60 >= now
                        /\ Abs(presence[u].lng) * GridStepMm <= rad * 1000 }
             /\ \A i \in DOMAIN resp'.users : resp'.users[i].user_id # Viewer ]_vars

\* The viewer's own row is stationary since time 0, 100 m from the point it
\* asks for, as is U1's; U10 is stationary since time 0 but 200 m away: the
\* answer at time 15 holds U1 alone.
C24_Witness ==
    /\ now = STATIONARY_THRESHOLD_SECONDS
    /\ presence[Viewer].present /\ presence[Viewer].is_stationary
    /\ presence[Viewer].activated_at = 0 /\ presence[Viewer].lng = 1
    /\ presence[U1].present /\ presence[U1].activated_at = 0 /\ presence[U1].lng = 1
    /\ presence[U10].present /\ presence[U10].activated_at = 0 /\ presence[U10].lng = 2
    /\ resp.op = "nearby"
    /\ Len(resp.users) = 1 /\ resp.users[1].user_id = U1

\* C23: no user a nearby call returns has last_seen_at older than the expiry
\* window, whether or not the user holds a slot of the viewer; no step
\* deletes a presence row, and a row changes only by a heartbeat of its user,
\* which sets last_seen_at to the time of the heartbeat.
C23_ExpiredNeverShown ==
    [][ /\ (resp'.op = "nearby" /\ Nearby) =>
              \A i \in DOMAIN resp'.users :
                 presence[resp'.users[i].user_id].last_seen_at
                     + PRESENCE_EXPIRY_MINUTES * 60 >= now
        /\ \A u \in Users :
              /\ presence[u].present => presence'[u].present
              /\ presence'[u] # presence[u] =>
                    /\ resp'.op = "heartbeat"
                    /\ presence'[u].last_seen_at = now ]_vars

\* U10 holds a slot of the viewer and was last seen more than the expiry
\* window ago, 100 m away; U1 was seen within the window; the last answer
\* holds U1 and not U10, and U10's row is still stored.
C23_Witness ==
    /\ \E r \in CycleRows(cycle, Viewer, day_key(now)) : r.target_id = U10
    /\ presence[U10].present /\ presence[U10].lng = 1
    /\ presence[U10].activated_at # Null
    /\ presence[U10].last_seen_at + PRESENCE_EXPIRY_MINUTES * 60 < now
    /\ presence[U1].present
    /\ presence[U1].last_seen_at + PRESENCE_EXPIRY_MINUTES * 60 >= now
    /\ resp.op = "nearby"
    /\ \E i \in DOMAIN resp.users : resp.users[i].user_id = U1
    /\ \A i \in DOMAIN resp.users : resp.users[i].user_id # U10

\* C25: once revealed_at of a conversation is set, no step changes it or
\* removes the row: a webhook that checked before the first commit and
\* commits after its settle delay writes the value already stored.
C25_RevealedAtSetOnce ==
    [][ \A c \in PushConvs :
          (connections[c].present /\ connections[c].revealed_at # Null)
          => /\ connections'[c].present
             /\ connections'[c].revealed_at = connections[c].revealed_at ]_vars

\* The conversation was revealed at time 2; a second webhook, which found it
\* not revealed, ended its delay at time 4 and is about to commit a row that
\* carries the reveal time 2.
C25_Witness ==
    /\ now = 2 * SETTLE_DELAY_SECONDS
    /\ connections["c1"].present
    /\ connections["c1"].revealed_at = SETTLE_DELAY_SECONDS
    /\ \E p \in PushProcs :
          /\ workers[p].pc = "mark" /\ ~workers[p].seen
          /\ workers[p].w.revealed_at = SETTLE_DELAY_SECONDS

\* C26: after every step a conversation with revealed_at set has messages of
\* at least two distinct senders; get_revealed_profile answers 403 'Not
\* revealed yet' when the conversation has no row or revealed_at is null, and
\* so answers 200 only for a conversation with two distinct senders.
C26_RevealNeedsTwoSenders ==
    [][ /\ \A c \in PushConvs :
              (connections'[c].present /\ connections'[c].revealed_at # Null)
                  => Cardinality(messages'[c]) >= 2
        /\ \A c \in PushConvs : \A o \in ConvPairs[c] : \A has_media \in BOOLEAN :
              (resp'.op = "profile" /\ get_revealed_profile(c, o, has_media)) =>
                 /\ (~connections[c].present \/ connections[c].revealed_at = Null)
                       => /\ resp'.http = 403
                          /\ resp'.detail = "Not revealed yet"
                 /\ resp'.http = 200 => Cardinality(messages[c]) >= 2 ]_vars

\* Both participants have sent a message, the reveal is committed, and the
\* profile was answered with the photo.
C26_Witness ==
    /\ Cardinality(messages["c1"]) = 2
    /\ connections["c1"].present /\ connections["c1"].revealed_at # Null
    /\ resp.op = "profile" /\ resp.http = 200

\* C27: a pass makes the status expired, and is answered 'ended', only if it
\* is the third pass committed on the connection; each of the first two
\* passes committed sets the status rejected, raises decline_count by one and
\* is answered search_next.
C27_ThreeStrikes ==
    [][ \A c \in PushConvs :
          passes'[c] = passes[c] + 1 =>
             /\ (\/ resp'.status = "ended"
                 \/ (connections'[c].status = "expired"
                     /\ connections[c].status # "expired"))
                   => passes'[c] = 3
             /\ passes'[c] <= 2 =>
                   /\ connections'[c].status = "rejected"
                   /\ connections'[c].decline_count = connections[c].decline_count + 1
                   /\ resp'.status = "search_next" ]_vars

\* C28: a webhook in its settle delay, and one between its store accesses,
\* has no connection checked out, no open transaction and no uncommitted
\* write; it has them while _local_is_revealed reads and while
\* _local_mark_revealed writes.
C28_NoConnectionWhileAsleep ==
    \A p \in PushProcs :
        /\ workers[p].pc \in {"senders", "sleep", "push"}
              => ~workers[p].conn /\ workers[p].w = NoWrite
        /\ workers[p].pc \in {"is_revealed", "mark"} => workers[p].conn

\* A webhook's delay is over and it waits, without a connection, while
\* another webhook holds the uncommitted reveal of the same conversation.
C28_Witness ==
    \E p \in PushProcs : \E q \in PushProcs \ {p} :
        /\ workers[p].pc = "sleep" /\ ~workers[p].conn
        /\ now >= workers[p].since + SETTLE_DELAY_SECONDS
        /\ workers[q].pc = "mark" /\ workers[q].conn
        /\ workers[q].conversation_id = workers[p].conversation_id

\* C29: every row of the cycle table is in the table after every step, with
\* the viewer, day, slot, target and conversation it was written with (no
\* heartbeat, nearby call or decision changes or deletes a row); and in
\* every table a step writes, ensure_slot for a target that holds a slot,
\* called with any conversation id, leaves the table as it is, in the
\* decision endpoint and in the cycle service alike.
C29_CycleRowsImmutable ==
    [][ /\ \A r \in cycle : r \in cycle'
        /\ cycle' # cycle => \A r \in cycle' : \A cid \in ConvIds :
              /\ _ensure_daily_slot(cycle', r.viewer_id, r.target_id, cid, r.day_key).cycle
                    = cycle'
              /\ ensure_cycle_slot(cycle', r.viewer_id, r.day_key, r.target_id, cid).cycle
                    = cycle'
              /\ ensure_cycle_slot(cycle', r.viewer_id, r.day_key, r.target_id, cid).conversation_id
                    = r.conversation_id ]_vars

\* U10 holds a slot of the viewer, written for conversation c1; the viewer
\* has decided meet, U10 has checked in, the pair got blocked by U10's pass
\* and the viewer asked for nearby users since: the row is as written, and
\* ensure_slot on U10 for conversation c2 would leave it so.
C29_Witness ==
    /\ \E r \in CycleRows(cycle, Viewer, day_key(now)) :
          r.target_id = U10 /\ r.conversation_id = "c1"
    /\ OtherDecision(decisions, "c1", Viewer) = "meet"
    /\ presence[U10].present
    /\ PairEntries(blocklist, Viewer, U10) # {}
    /\ resp.op = "nearby"
    /\ _ensure_daily_slot(cycle, Viewer, U10, "c2", day_key(now)).cycle = cycle

\* C30: in every nearby answer the users that hold a slot of the viewer's
\* day come before the users that hold none, the slotted users in ascending
\* order of their slots, the others in non-decreasing order of the distance
\* the answer gives for them.
C30_SlottedThenNearestFirst ==
    [][ (resp'.op = "nearby" /\ NearbyCycle) =>
          LET users == resp'.users
              today == day_key(now)
              slotted(i) == \E r \in CycleRows(cycle, Viewer, today) :
                                r.target_id = users[i].user_id
          IN  \A i \in DOMAIN users : \A j \in DOMAIN users :
                 i < j =>
                    /\ slotted(j) => slotted(i)
                    /\ (slotted(i) /\ slotted(j))
                          => SlotOf(Viewer, today, users[i].user_id)
                                < SlotOf(Viewer, today, users[j].user_id)
                    /\ (~slotted(i) /\ ~slotted(j))
                          => users[i].distance_meters <= users[j].distance_meters ]_vars

\* The last answer holds a slotted user 200 m away first and a user without
\* a slot 100 m away second.
C30_Witness ==
    /\ resp.op = "nearby" /\ Len(resp.users) = 2
    /\ \E r \in CycleRows(cycle, Viewer, day_key(now)) : r.target_id = resp.users[1].user_id
    /\ \A r \in CycleRows(cycle, Viewer, day_key(now)) : r.target_id # resp.users[2].user_id
    /\ resp.users[1].distance_meters > resp.users[2].distance_meters
    /\ resp.users[2].distance_meters = Round1(GridStepMm)

C33_DecisionsNeedSlots ==
    [][ \A p \in Procs :
          (tx[p].pc = "commit" /\ tx'[p].pc = "done") =>
             LET q == tx[p].req
             IN  /\ \E r \in CycleRows(cycle', q.user_id, day_key(now)) :
                       r.target_id = q.other_user_id
                 /\ Cardinality({ r.other_user_id :
                                    r \in { d \in decisions' : d.user_id = q.user_id } }) <= 3
                 /\ (q.decision = "pass"
                       /\ \A r \in CycleRows(cycle, q.user_id, day_key(now)) :
                             r.target_id # q.other_user_id)
                       => Cardinality(CycleRows(cycle', q.user_id, day_key(now)))
                             = Cardinality(CycleRows(cycle, q.user_id, day_key(now))) + 1 ]_vars

\* C34: every decision answered with a RevealDecisionOut (http 200),
\* whichever return path produced it, carries the slot that other_user_id
\* holds in the caller's cycle of today.
C34_ResponseSlotIsHeldSlot ==
    [][ \A q \in DecisionRequests :
          (/\ q.other_user_id # q.user_id
           /\ Served(q)
           /\ resp'.http = 200)
          => \E r \in CycleRows(cycle', q.user_id, day_key(now)) :
                /\ r.target_id = q.other_user_id
                /\ r.slot = resp'.slot ]_vars

\* ------------------------------------------------------------------------
\* C35  the counterpart's answer to a waiting meet
\* ------------------------------------------------------------------------
\* The counterpart of q has its meet stored for the conversation and the
\* caller of q has no decision stored for it: the counterpart was answered
\* waiting, and q is the caller's next decision on the conversation.
AnswersWaitingMeet(q) ==
    /\ q.other_user_id # q.user_id
    /\ OtherDecision(decisions, q.cid, q.other_user_id) = "meet"
    /\ OtherDecision(decisions, q.cid, q.user_id) = "none"

CrowdUsers == {U1, U10, U3, U4}

CrowdRequests ==
    { q \in DecisionRequests :
        /\ q.user_id = Viewer /\ q.cid \in {"c3", "c4"}
        /\ q.other_user_id # q.user_id
        /\ q.decision = (IF q.cid = "c4" THEN "pass" ELSE "meet") }

InitCrowd ==
    /\ now = STATIONARY_THRESHOLD_SECONDS
    /\ cycle = (AssignSlot(AssignSlot({}, Viewer, U10, "c1", 0).cycle,
                           Viewer, U1, "c2", 0)).cycle
    /\ decisions = StoreDecision(StoreDecision({}, "c1", Viewer, U10, "meet"),
                                 "c2", Viewer, U1, "meet")
    /\ blocklist = {}
    /\ resp = NoResp
    /\ tx = [p \in Procs |-> IdleTx]
    /\ presence = [u \in Users |->
                     IF u \in CrowdUsers
                     THEN HeartbeatRow(NoPresence, 0, 1, TRUE, "null", 0)
                     ELSE NoPresence]
    /\ shown = {}
    /\ schema = DeclaredSchema
    /\ connections = [c \in PushConvs |-> NoConnection]
    /\ messages = [c \in PushConvs |-> {}]
    /\ workers = [p \in PushProcs |-> IdleWorker]
    /\ passes = [c \in PushConvs |-> 0]
    /\ InitOutside

CrowdNearby == presence_nearby(Viewer, 0, 0, 150)

NextCrowd ==
    \/ CrowdNearby
    \/ \E p \in Procs :
        \/ \E q \in CrowdRequests : TxBegin(p, q)
        \/ TxSelectExisting(p)
        \/ TxSelectUsed(p)
        \/ TxInsertSlot(p)
        \/ TxStoreDecision(p)
        \/ TxSelectOther(p)
        \/ TxInsertBlock(p)
        \/ TxCommit(p)
        \/ TxClose(p)

SpecCrowd == InitCrowd /\ [][NextCrowd]_vars

\* C36: a nearby response holds at most three users and no user twice.
C36_AtMostThreeDistinct ==
    resp.op = "nearby" =>
        /\ Len(resp.users) <= 3
        /\ \A i \in DOMAIN resp.users : \A j \in DOMAIN resp.users :
              resp.users[i].user_id = resp.users[j].user_id => i = j

\* ------------------------------------------------------------------------
\* C31  the cached key set
\* ------------------------------------------------------------------------
\* Two threads verify tokens while the issuer rotates its keys and the clock
\* moves on in steps of half the TTL.
MaxAuthTicks == 2

AuthTick ==
    /\ now + _JWKS_TTL_SECONDS \div 2 <= MaxAuthTicks * (_JWKS_TTL_SECONDS \div 2)
    /\ Tick(_JWKS_TTL_SECONDS \div 2)

NextAuth ==
    \/ Rotate
    \/ AuthTick
    \/ \E p \in AuthProcs :
         \/ \E kid \in Kids : AuthBegin(p, kid)
         \/ GetCachedTest(p)
         \/ GetCachedHit(p)
         \/ FetchJwks(p)
         \/ StoreJwks(p)
         \/ StoreTs(p)
         \/ LookupKey(p)
         \/ AuthReturn(p)

SpecAuth == Init /\ [][NextAuth]_vars

\* C31: a verification that finds a cached key set younger than the TTL
\* fetches nothing; a verification rejected with 'Public key not found' has
\* dropped the cached set and fetched exactly once after that; and a token is
\* accepted only if its key id is in the key set its verification got last.
C31_CachedKeysRule ==
    [][ \A p \in AuthProcs :
          /\ (auth[p].pc = "get" /\ Young(_JWKS_CACHE, now) /\ auth'[p] # auth[p])
                => auth'[p].pc # "fetch"
          /\ (auth[p].pc # "done" /\ auth'[p].pc = "done"
                /\ auth'[p].result = "401_no_key")
                => (auth'[p].refreshed /\ auth'[p].refetches = 1)
          /\ (auth[p].pc # "done" /\ auth'[p].pc = "done"
                /\ auth'[p].result = "accepted")
                => HasKey(auth'[p].jwks, auth'[p].kid) ]_vars

\* ------------------------------------------------------------------------
\* C37, C38  the onboarding wizard
\* ------------------------------------------------------------------------
\* One user starts onboarding and sends the saves of the wizard in any order.
NextOnboarding ==
    \E u \in OnbUsers :
        \/ start_onboarding(u, 1)
        \/ save_location(u)
        \/ \E payload \in PrefsPayloads : save_prefs(u, payload)
        \/ \E intent \in IntentPayloads : save_intent(u, intent)
        \/ \E tags \in LifestylePayloads : save_lifestyle(u, tags)
        \/ \E items \in MediaPayloads : save_media(u, items)
        \/ \E note_text \in NotePayloads : save_note(u, note_text)

SpecOnboarding == Init /\ [][NextOnboarding]_vars

\* C37: a user's onboarding is completed exactly when its current step is
\* done, and once it is completed no operation moves the current step away
\* from done.
C37_CompletedIffDone ==
    [][ \A u \in OnbUsers :
          onboarding_state'[u].present =>
             /\ onboarding_state'[u].completed
                   <=> (onboarding_state'[u].current_step = "done")
             /\ (onboarding_state[u].present /\ onboarding_state[u].completed)
                   => onboarding_state'[u].current_step = "done" ]_vars

\* The step a save belongs to.
OwnStep(op) ==
    CASE op = "save_location"  -> "location"
      [] op = "save_prefs"     -> "prefs"
      [] op = "save_intent"    -> "intent"
      [] op = "save_lifestyle" -> "lifestyle"
      [] op = "save_media"     -> "media"
      [] op = "save_note"      -> "note"
      [] OTHER                 -> "none"

\* C38: a save succeeds only when the current step is its own and then moves
\* the current step to the next one of location, prefs, intent, lifestyle,
\* media, note, done; a save that fails leaves the tables as they were; so
\* the current step never moves back and reaches done only through all six
\* saves in order.
C38_StepsInOrder ==
    [][ \A u \in OnbUsers :
          (onboarding_state[u].present /\ OwnStep(resp'.op) # "none") =>
             IF resp'.http = 200
             THEN /\ onboarding_state[u].current_step = OwnStep(resp'.op)
                  /\ StepIndex(onboarding_state'[u].current_step)
                        = StepIndex(onboarding_state[u].current_step) + 1
             ELSE UNCHANGED <<onboarding_state, profiles, media_items>> ]_vars

\* ------------------------------------------------------------------------
\* C39  connections and their conversations
\* ------------------------------------------------------------------------
\* Users request connections with one another and accept or reject them by id.
ConnectionIds == 1 .. MaxConnections

NextConnect ==
    \/ \E a \in SvcUsers : \E b \in SvcUsers : request_connection(a, b)
    \/ \E id \in ConnectionIds : \E u \in SvcUsers : accept_connection(id, u)
    \/ \E id \in ConnectionIds : \E u \in SvcUsers : reject_connection(id, u)

SpecConnect == Init /\ [][NextConnect]_vars

\* C39: a connection has at most one conversation; a rejected connection
\* never becomes accepted; and an accept creates a conversation only for a
\* connection that was pending.
C39_OneConversationPerConnection ==
    [][ /\ \A c \in connection_rows' :
              Cardinality({ o \in opened' : o.connection_id = c.id }) <= 1
        /\ \A c \in connection_rows : \A d \in connection_rows' :
              (c.status = "rejected" /\ d.id = c.id) => d.status # "accepted"
        /\ \A o \in opened' \ opened :
              \E c \in connection_rows :
                 c.id = o.connection_id /\ c.status = "pending" ]_vars
====
